---- MODULE Spec2Model ----
(***************************************************************************)
(* Recording-and-delivery pipeline of chatlog: the Recorder                *)
(* (internal/recorder/recorder.go), the Delivery Queue (fileChan), the     *)
(* Uploader (internal/uploader/uploader.go) and the start-up code of main. *)
(*                                                                         *)
(* Time is a discrete wall clock counted in ticks of 1/TicksPerMinute      *)
(* minute, starting at 2025-12-30 23:58:00 UTC.  File sizes are counted in *)
(* bytes with a megabyte scaled down to BytesPerMB bytes.                  *)
(***************************************************************************)
EXTENDS Integers, Sequences, FiniteSets, TLC

VARIABLES
    cfg,          \* loaded configuration (bufferSize, rotateMinutes, ...)
    now,          \* wall clock, in ticks
    nextTick,     \* time of the next tick of the rotation ticker
    tickPending,  \* a tick is waiting in ticker.C
    cancelled,    \* ctx.Done() is closed
    recPc,        \* Recorder.Start: "running", "returned"
    upPc,         \* Uploader.Start: "running", "returned"
    nextId,       \* number of the next Event a source will emit
    messageChan,  \* shared Event channel
    fileChan,     \* Delivery Queue
    currentFiles, \* Recorder.currentFiles: key -> index into fws, 0 is nil
    fws,          \* every fileWriter created so far
    dir,          \* output directory: file name -> inode
    files,        \* inode -> content (sequence of lines)
    remote,       \* object store: s3 key -> content
    tasks,        \* uploadWithRetry goroutines of this process run
    dropped,      \* paths whose enqueue was skipped on a full fileChan, with the run
    restarts,     \* number of process restarts so far
    exit          \* how the process ended: "none", "graceful", "timeout"

vars == <<cfg, now, nextTick, tickPending, cancelled, recPc, upPc, nextId,
          messageChan, fileChan, currentFiles, fws, dir, files, remote,
          tasks, dropped, restarts, exit>>

-----------------------------------------------------------------------------
(* Bounds of the model *)

MaxTime == 2
MaxEvents == 2
MaxRetriesBound == 3
TicksPerMinute == 2
BytesPerMB == 2
FileChanCap == 1

MaxRestarts == 1
MaxTasks == 3

\* buffer sizes the configuration is drawn from
BufferSizes == {1, 2}

(* Values fixed by the program *)

TickerMinutes == 1

-----------------------------------------------------------------------------
(* Events produced by the source collaborators *)

Platforms == {"twitch"}
Channels == {<<"ludwig">>, <<"some", "name">>}

\* message.Message; a channel name is the sequence of its '_'-separated parts
Message(p, c, id) == [platform |-> p, channel |-> c, id |-> id]

\* Sprintf("%s_%s", msg.Platform, msg.Channel)
Key(p, c) == <<p>> \o c

Keys == {Key(p, c) : p \in Platforms, c \in Channels}

\* len(json.Marshal(msg)): the length grows with the fields of the Event; here
\* one byte per token of the channel name
JsonLen(msg) == Len(msg.channel)

-----------------------------------------------------------------------------
(* File names *)

Pad2(n) == IF n < 10 THEN "0" \o ToString(n) ELSE ToString(n)

\* time.Now().UTC() at clock value t: day (0 is 2025-12-30) and minute of the day
DayOf(t) == (1438 + (t \div TicksPerMinute)) \div 1440
HmOf(t) == (1438 + (t \div TicksPerMinute)) % 1440

\* time.Format("20060102") of a day of December 2025 (0 is the 30th)
DateTok(d) == "202512" \o ToString(30 + d)

\* time.Format("1504") of a minute of the day
TimeTok(hm) == Pad2(hm \div 60) \o Pad2(hm % 60)

\* the filename without its platform prefix
FileNameNoPlatform(p, c, t) ==
    [stem |-> c \o <<DateTok(DayOf(t)), TimeTok(HmOf(t))>>,
     ext |-> "jsonl", isDir |-> FALSE]

\* Sprintf("%s_%s_%s.jsonl", platform, channel, timestamp)
FileName(p, c, t) ==
    [stem |-> <<p>> \o c \o <<DateTok(DayOf(t)), TimeTok(HmOf(t))>>,
     ext |-> "jsonl", isDir |-> FALSE]

\* filepath.Join(r.outputDir, filename)
PathJoin(d, name) == [dir |-> d, name |-> name]

\* filepath.Base(localPath)
PathBase(path) == path.name

OutputDir == "data"

-----------------------------------------------------------------------------
(* Recorder.  The operators below work on a record R holding the part of   *)
(* the state the Recorder's handlers read and write:                       *)
(* currentFiles, fws, dir, files, fileChan, dropped.                       *)

RecState == [currentFiles |-> currentFiles, fws |-> fws, dir |-> dir,
             files |-> files, fileChan |-> fileChan, dropped |-> dropped]

RECURSIVE SumBytes(_)
\* bytes added to bytesWritten by the loop of flushFileWriter
SumBytes(buf) ==
    IF buf = <<>> THEN 0 ELSE (JsonLen(Head(buf)) + 1) + SumBytes(Tail(buf))

\* os.Create(filepath): O_CREATE|O_TRUNC, the inode of an existing name is kept
OsCreate(R, name) ==
    IF name \in DOMAIN R.dir
    THEN [R EXCEPT !.files[R.dir[name]] = <<>>]
    ELSE [R EXCEPT !.files = Append(@, <<>>),
                   !.dir = @ @@ (name :> (Len(R.files) + 1))]

\* createFileWriter: the new fileWriter is appended to R.fws
CreateFileWriter(R, p, c, t) ==
    LET name == FileName(p, c, t)
        R1 == OsCreate(R, name)
        fw == [platform |-> p, channel |-> c, filename |-> name,
               createdAt |-> t, bytesWritten |-> 0, messageBuffer |-> <<>>,
               inode |-> R1.dir[name], status |-> "open",
               accepted |-> <<>>, wrote |-> <<>>,
               werr |-> FALSE, failedEv |-> {}]
    IN [R1 EXCEPT !.fws = Append(@, fw)]

\* flushFileWriter: every buffered message is written as one line, the
\* buffer is cleared and the bufio.Writer is flushed to the file.  A write
\* through a descriptor reaches the inode whether or not it is still linked.
FlushFileWriter(R, i) ==
    LET fw == R.fws[i]
    IN IF fw.werr
       THEN IF fw.messageBuffer = <<>> THEN R
            ELSE [R EXCEPT !.fws[i].failedEv = @ \cup {Head(fw.messageBuffer)}]
       ELSE [R EXCEPT !.files[fw.inode] = @ \o fw.messageBuffer,
                      !.fws[i].bytesWritten = @ + SumBytes(fw.messageBuffer),
                      !.fws[i].wrote = @ \o fw.messageBuffer,
                      !.fws[i].messageBuffer = <<>>]

\* flushFileWriter on a healthy writer when the disk fails.  Messages 1..k-1
\* of the buffer were accepted by fw.writer.Write; the failure is returned
\* by the Write of message k, or for k = Len+1 by the final Flush.  The
\* first j lines had reached the file before the failure.  A failed Write
\* returns before the buffer is cleared; a failed Flush comes after it.
\* The bufio.Writer keeps the error: it accepts no more data.  failedEv
\* collects the Events at which a write failed: the first line that did not
\* reach the file and the message whose Write returned the error.
FlushFileWriterFails(R, i, k, j) ==
    LET fw == R.fws[i]
        b == fw.messageBuffer
    IN [R EXCEPT !.files[fw.inode] = @ \o SubSeq(b, 1, j),
                 !.fws[i].wrote = @ \o SubSeq(b, 1, j),
                 !.fws[i].bytesWritten = @ + SumBytes(SubSeq(b, 1, k - 1)),
                 !.fws[i].messageBuffer = IF k <= Len(b) THEN b ELSE <<>>,
                 !.fws[i].werr = TRUE,
                 !.fws[i].failedEv = @ \cup {b[j + 1]}
                                       \cup (IF k <= Len(b) THEN {b[k]} ELSE {})]

\* the places k at which a flush of buffer b can fail and the numbers j of
\* lines that may have reached the file by then
FailPoints(b) ==
    {<<k, j>> \in (1..(Len(b) + 1)) \X (0..Len(b)) : j < k /\ j < Len(b)}

\* fw.writer.Flush(); fw.file.Close()
CloseFile(R, i) == [R EXCEPT !.fws[i].status = "closed"]

\* select { case fileChan <- filepath: ... default: ... }
TrySend(R, path) ==
    IF Len(R.fileChan) < FileChanCap
    THEN [R EXCEPT !.fileChan = Append(@, path)]
    ELSE [R EXCEPT !.dropped = @ \cup {[path |-> path, run |-> restarts]}]

\* rotateFile that installs the replacement without closing the old file
RotateFileNoClose(R, key, t) ==
    LET i == R.currentFiles[key]
        fw == R.fws[i]
        R1 == FlushFileWriter(R, i)
        R3 == TrySend(R1, PathJoin(OutputDir, fw.filename))
        R4 == CreateFileWriter(R3, fw.platform, fw.channel, t)
    IN [R4 EXCEPT !.currentFiles[key] = Len(R4.fws)]

\* rotateFile that leaves the rotated writer in the map
RotateFileKeepsOld(R, key, t) ==
    LET i == R.currentFiles[key]
        fw == R.fws[i]
        R1 == FlushFileWriter(R, i)
        R2 == CloseFile(R1, i)
        R3 == TrySend(R2, PathJoin(OutputDir, fw.filename))
    IN CreateFileWriter(R3, fw.platform, fw.channel, t)

\* rotateFile that closes and enqueues without flushing the buffer
RotateFileNoFlush(R, key, t) ==
    LET i == R.currentFiles[key]
        fw == R.fws[i]
        R2 == CloseFile(R, i)
        R3 == TrySend(R2, PathJoin(OutputDir, fw.filename))
        R4 == CreateFileWriter(R3, fw.platform, fw.channel, t)
    IN [R4 EXCEPT !.currentFiles[key] = Len(R4.fws)]

\* rotateFile
RotateFile(R, key, t) ==
    LET i == R.currentFiles[key]
        fw == R.fws[i]
        R1 == FlushFileWriter(R, i)
        R2 == CloseFile(R1, i)
        R3 == TrySend(R2, PathJoin(OutputDir, fw.filename))
        R4 == CreateFileWriter(R3, fw.platform, fw.channel, t)
    IN [R4 EXCEPT !.currentFiles[key] = Len(R4.fws)]

\* rotateFile that leaves the closed writer in the map when createFileWriter
\* fails
RotateFileFaultyKeepsKey(R, key, t, kj, createFails) ==
    LET i == R.currentFiles[key]
        fw == R.fws[i]
        R1 == IF ~fw.werr /\ kj \in FailPoints(fw.messageBuffer)
              THEN FlushFileWriterFails(R, i, kj[1], kj[2])
              ELSE FlushFileWriter(R, i)
        R2 == CloseFile(R1, i)
        R3 == TrySend(R2, PathJoin(OutputDir, fw.filename))
    IN IF createFails
       THEN R3
       ELSE LET R4 == CreateFileWriter(R3, fw.platform, fw.channel, t)
            IN [R4 EXCEPT !.currentFiles[key] = Len(R4.fws)]

\* rotateFile when the disk fails: with kj in FailPoints the flush fails at
\* that point (logged), with createFails the replacement cannot be created
\* and the key is deleted from the map; close and enqueue happen regardless
RotateFileFaulty(R, key, t, kj, createFails) ==
    LET i == R.currentFiles[key]
        fw == R.fws[i]
        R1 == IF ~fw.werr /\ kj \in FailPoints(fw.messageBuffer)
              THEN FlushFileWriterFails(R, i, kj[1], kj[2])
              ELSE FlushFileWriter(R, i)
        R2 == CloseFile(R1, i)
        R3 == TrySend(R2, PathJoin(OutputDir, fw.filename))
    IN IF createFails
       THEN [R3 EXCEPT !.currentFiles[key] = 0]
       ELSE LET R4 == CreateFileWriter(R3, fw.platform, fw.channel, t)
            IN [R4 EXCEPT !.currentFiles[key] = Len(R4.fws)]

\* the rotation decision with AND for OR
NeedsRotationBoth(fw, t) ==
    /\ (t - fw.createdAt) >= cfg.rotateMinutes * TicksPerMinute
    /\ fw.bytesWritten >= cfg.rotateMegabytes * BytesPerMB

\* the size test with > for >=
NeedsRotationStrict(fw, t) ==
    \/ (t - fw.createdAt) >= cfg.rotateMinutes * TicksPerMinute
    \/ fw.bytesWritten > cfg.rotateMegabytes * BytesPerMB

\* the rotation test passing over writers that never received an Event
NeedsRotationSkipsIdle(fw, t) ==
    /\ (fw.bytesWritten > 0 \/ fw.messageBuffer # <<>>)
    /\ \/ (t - fw.createdAt) >= cfg.rotateMinutes * TicksPerMinute
       \/ fw.bytesWritten >= cfg.rotateMegabytes * BytesPerMB

\* the two tests of checkRotation
NeedsRotation(fw, t) ==
    \/ (t - fw.createdAt) >= cfg.rotateMinutes * TicksPerMinute
    \/ fw.bytesWritten >= cfg.rotateMegabytes * BytesPerMB

RECURSIVE CheckRotationLoop(_, _, _)
\* checkRotation: the range loop over currentFiles, visiting the keys in the
\* order given by the sequence order
CheckRotationLoop(R, order, t) ==
    IF order = <<>> THEN R
    ELSE LET key == Head(order)
             i == R.currentFiles[key]
             R1 == IF i # 0 /\ NeedsRotation(R.fws[i], t)
                   THEN RotateFile(R, key, t) ELSE R
         IN CheckRotationLoop(R1, Tail(order), t)

RECURSIVE FlushAllLoopNoFlush(_, _)
\* flushAll that closes the files without flushing the buffers
FlushAllLoopNoFlush(R, order) ==
    IF order = <<>> THEN R
    ELSE LET key == Head(order)
             i == R.currentFiles[key]
             R1 == IF i = 0 THEN R
                   ELSE LET Rb == CloseFile(R, i)
                            Rc == TrySend(Rb, PathJoin(OutputDir, R.fws[i].filename))
                        IN [Rc EXCEPT !.currentFiles[key] = 0]
         IN FlushAllLoopNoFlush(R1, Tail(order))

RECURSIVE FlushAllLoopRecreates(_, _)
\* flushAll that ends each round as rotateFile does, with a replacement writer
FlushAllLoopRecreates(R, order) ==
    IF order = <<>> THEN R
    ELSE LET key == Head(order)
             i == R.currentFiles[key]
             R1 == IF i = 0 THEN R
                   ELSE LET Ra == FlushFileWriter(R, i)
                            Rb == CloseFile(Ra, i)
                            Rc == TrySend(Rb, PathJoin(OutputDir, R.fws[i].filename))
                            Rd == CreateFileWriter(Rc, R.fws[i].platform,
                                                   R.fws[i].channel, now)
                        IN [Rd EXCEPT !.currentFiles[key] = 0]
         IN FlushAllLoopRecreates(R1, Tail(order))

RECURSIVE FlushAllLoop(_, _)
\* flushAll: the range loop over currentFiles
FlushAllLoop(R, order) ==
    IF order = <<>> THEN R
    ELSE LET key == Head(order)
             i == R.currentFiles[key]
             R1 == IF i = 0 THEN R
                   ELSE LET Ra == FlushFileWriter(R, i)
                            Rb == CloseFile(Ra, i)
                            Rc == TrySend(Rb, PathJoin(OutputDir, R.fws[i].filename))
                        IN [Rc EXCEPT !.currentFiles[key] = 0]
         IN FlushAllLoop(R1, Tail(order))

\* recordMessage whose flush fails at point kj: the error is returned
RecordMessageFlushFailsOp(R, msg, t, kj) ==
    LET key == Key(msg.platform, msg.channel)
        R1 == IF R.currentFiles[key] = 0
              THEN LET Rc == CreateFileWriter(R, msg.platform, msg.channel, t)
                   IN [Rc EXCEPT !.currentFiles[key] = Len(Rc.fws)]
              ELSE R
        i == R1.currentFiles[key]
        R2 == [R1 EXCEPT !.fws[i].messageBuffer = Append(@, msg),
                         !.fws[i].accepted = Append(@, msg)]
    IN FlushFileWriterFails(R2, i, kj[1], kj[2])

\* the buffer with which recordMessage would call flushFileWriter
BufferAfterAppend(R, msg) ==
    LET key == Key(msg.platform, msg.channel)
    IN IF R.currentFiles[key] = 0 THEN <<msg>>
       ELSE Append(R.fws[R.currentFiles[key]].messageBuffer, msg)

\* recordMessage that also appends the Event to the buffers of the open
\* writers of the other keys
RecordMessageOpBroadcast(R, msg, t) ==
    LET key == Key(msg.platform, msg.channel)
        R0 == [R EXCEPT !.fws =
                  [n \in DOMAIN R.fws |->
                      IF /\ R.fws[n].status = "open"
                         /\ Key(R.fws[n].platform, R.fws[n].channel) # key
                      THEN [R.fws[n] EXCEPT !.messageBuffer = Append(@, msg)]
                      ELSE R.fws[n]]]
        R1 == IF R0.currentFiles[key] = 0
              THEN LET Rc == CreateFileWriter(R0, msg.platform, msg.channel, t)
                   IN [Rc EXCEPT !.currentFiles[key] = Len(Rc.fws)]
              ELSE R0
        i == R1.currentFiles[key]
        R2 == [R1 EXCEPT !.fws[i].messageBuffer = Append(@, msg),
                         !.fws[i].accepted = Append(@, msg)]
    IN IF Len(R2.fws[i].messageBuffer) >= cfg.bufferSize
       THEN FlushFileWriter(R2, i) ELSE R2

\* recordMessage
RecordMessageOp(R, msg, t) ==
    LET key == Key(msg.platform, msg.channel)
        R1 == IF R.currentFiles[key] = 0
              THEN LET Rc == CreateFileWriter(R, msg.platform, msg.channel, t)
                   IN [Rc EXCEPT !.currentFiles[key] = Len(Rc.fws)]
              ELSE R
        i == R1.currentFiles[key]
        R2 == [R1 EXCEPT !.fws[i].messageBuffer = Append(@, msg),
                         !.fws[i].accepted = Append(@, msg)]
    IN IF Len(R2.fws[i].messageBuffer) >= cfg.bufferSize
       THEN FlushFileWriter(R2, i) ELSE R2

RECURSIVE CheckRotationLoopFaulty(_, _, _, _, _, _)
\* checkRotation in which the rotation of key fk meets the disk failure
CheckRotationLoopFaulty(R, order, t, fk, kj, createFails) ==
    IF order = <<>> THEN R
    ELSE LET key == Head(order)
             i == R.currentFiles[key]
             R1 == IF i # 0 /\ NeedsRotation(R.fws[i], t)
                   THEN IF key = fk
                        THEN RotateFileFaulty(R, key, t, kj, createFails)
                        ELSE RotateFile(R, key, t)
                   ELSE R
         IN CheckRotationLoopFaulty(R1, Tail(order), t, fk, kj, createFails)

\* the orders in which a range loop may visit the keys of currentFiles
KeyOrders ==
    {o \in [1..Cardinality(Keys) -> Keys] : \A k \in Keys : \E j \in DOMAIN o : o[j] = k}

SetRecState(R) ==
    /\ currentFiles' = R.currentFiles
    /\ fws' = R.fws
    /\ dir' = R.dir
    /\ files' = R.files
    /\ fileChan' = R.fileChan
    /\ dropped' = R.dropped

-----------------------------------------------------------------------------
(* Uploader *)

\* strings.Split(strings.TrimSuffix(filename, ".jsonl"), "_"): with another
\* extension the suffix stays part of the last token
Parts(name) ==
    IF name.ext = "jsonl" THEN name.stem
    ELSE [name.stem EXCEPT ![Len(name.stem)] = @ \o "." \o name.ext]

\* the days the clock can show: 2025-12-30 and 2025-12-31
CalendarDays == 0..1

\* the strings that parse as "1504"
ValidTimes == {TimeTok(hm) : hm \in 0..1439}

\* time.Parse("20060102_1504", dateStr + "_" + timeStr): the set of days
\* the tokens denote (empty: parse error); the key uses the date only
ParseStamp(dateStr, timeStr) ==
    IF timeStr \in ValidTimes
    THEN {d \in CalendarDays : DateTok(d) = dateStr}
    ELSE {}

\* a key that leaves out the filename: date, platform and channel only
GenerateS3KeyNoFilename(name) ==
    LET parts == Parts(name)
        n == Len(parts)
    IN IF n < 4 THEN [err |-> TRUE, key |-> <<>>]
       ELSE LET ds == ParseStamp(parts[n - 1], parts[n])
            IN IF ds = {} THEN [err |-> TRUE, key |-> <<>>]
               ELSE LET d == CHOOSE x \in ds : TRUE
                    IN [err |-> FALSE,
                        key |-> <<"2025", "12", ToString(30 + d), parts[1],
                                  SubSeq(parts, 2, n - 2),
                                  [stem |-> <<>>, ext |-> "jsonl", isDir |-> FALSE]>>]

\* generateS3Key taking the second token alone as the channel
GenerateS3KeySecondToken(name) ==
    LET parts == Parts(name)
        n == Len(parts)
    IN IF n < 4 THEN [err |-> TRUE, key |-> <<>>]
       ELSE LET ds == ParseStamp(parts[n - 1], parts[n])
            IN IF ds = {} THEN [err |-> TRUE, key |-> <<>>]
               ELSE LET d == CHOOSE x \in ds : TRUE
                    IN [err |-> FALSE,
                        key |-> <<"2025", "12", ToString(30 + d),
                                  parts[1], <<parts[2]>>, name>>]

\* generateS3Key; the key is the sequence of its '/'-separated components
GenerateS3Key(name) ==
    LET parts == Parts(name)
        n == Len(parts)
    IN IF n < 4 THEN [err |-> TRUE, key |-> <<>>]
       ELSE LET platform == parts[1]
                channel == SubSeq(parts, 2, n - 2)
                ds == ParseStamp(parts[n - 1], parts[n])
            IN IF ds = {} THEN [err |-> TRUE, key |-> <<>>]
               ELSE LET d == CHOOSE x \in ds : TRUE
                    IN [err |-> FALSE,
                        key |-> <<"2025", "12", ToString(30 + d),
                                  platform, channel, name>>]

\* the shift taken one attempt too far
Pow2NextAttempt(n) == 2 ^ (n + 1)

\* 1 << uint(attempt)
Pow2(n) == 2 ^ n

\* uploadWithRetry going on after generateS3Key failed
NewTaskIgnoresError(path) ==
    LET k == GenerateS3Key(PathBase(path))
    IN [path |-> path, s3Key |-> k.key, attempt |-> 0, pc |-> "try",
        puts |-> 0, slept |-> <<>>, removed |-> FALSE]

\* go u.uploadWithRetry(ctx, localPath), up to the first uploadFile: the key
\* is derived, and the goroutine returns at once when that fails
NewTask(path) ==
    LET k == GenerateS3Key(PathBase(path))
    IN [path |-> path, s3Key |-> k.key, attempt |-> 0,
        pc |-> IF k.err THEN "badname" ELSE "try",
        puts |-> 0, slept |-> <<>>, removed |-> FALSE]

\* the retry test with <= for <
AfterFailureOffByOne(t) ==
    IF t.attempt <= cfg.maxRetries
    THEN IF cancelled THEN [t EXCEPT !.pc = "aborted"]
         ELSE [t EXCEPT !.pc = "backoff"]
    ELSE [t EXCEPT !.pc = "exhausted", !.attempt = @ + 1]

\* the backoff select without its ctx.Done() case
AfterFailureIgnoresCancel(t) ==
    IF t.attempt < cfg.maxRetries
    THEN [t EXCEPT !.pc = "backoff"]
    ELSE [t EXCEPT !.pc = "exhausted", !.attempt = @ + 1]

\* what a failed attempt leads to: the backoff select, or the end of the loop
AfterFailure(t) ==
    IF t.attempt < cfg.maxRetries
    THEN IF cancelled THEN [t EXCEPT !.pc = "aborted"]
         ELSE [t EXCEPT !.pc = "backoff"]
    ELSE [t EXCEPT !.pc = "exhausted", !.attempt = @ + 1]

\* uploadFile succeeds: PutObject stores the file's content under the key,
\* then the local file is removed if configured
TaskAttemptOk(i) ==
    /\ exit = "none"
    /\ i \in DOMAIN tasks
    /\ tasks[i].pc = "try"
    /\ PathBase(tasks[i].path) \in DOMAIN dir
    /\ LET name == PathBase(tasks[i].path)
       IN /\ remote' = [k \in DOMAIN remote \cup {tasks[i].s3Key} |->
                            IF k = tasks[i].s3Key THEN files[dir[name]]
                            ELSE remote[k]]
          /\ dir' = IF cfg.deleteAfter
                    THEN [f \in DOMAIN dir \ {name} |-> dir[f]]
                    ELSE dir
          /\ tasks' = [tasks EXCEPT ![i].pc = "uploaded",
                                    ![i].puts = @ + 1,
                                    ![i].removed = cfg.deleteAfter]
    /\ UNCHANGED <<cfg, now, nextTick, tickPending, cancelled, recPc, upPc,
                   nextId, messageChan, fileChan, currentFiles, fws, files,
                   dropped, restarts,
                   exit>>

\* a successful attempt after which os.Remove fails: the error is logged and
\* the goroutine returns
TaskAttemptOkRemoveFails(i) ==
    /\ exit = "none"
    /\ i \in DOMAIN tasks
    /\ tasks[i].pc = "try"
    /\ cfg.deleteAfter
    /\ PathBase(tasks[i].path) \in DOMAIN dir
    /\ LET name == PathBase(tasks[i].path)
       IN /\ remote' = [k \in DOMAIN remote \cup {tasks[i].s3Key} |->
                            IF k = tasks[i].s3Key THEN files[dir[name]]
                            ELSE remote[k]]
          /\ tasks' = [tasks EXCEPT ![i].pc = "uploaded", ![i].puts = @ + 1]
    /\ UNCHANGED <<cfg, now, nextTick, tickPending, cancelled, recPc, upPc,
                   nextId, messageChan, fileChan, currentFiles, fws, dir,
                   files, dropped, restarts, exit>>

\* a failed attempt that removes the local file once the retries are used up
TaskAttemptFailDeletes(i) ==
    /\ exit = "none"
    /\ i \in DOMAIN tasks
    /\ tasks[i].pc = "try"
    /\ LET opened == PathBase(tasks[i].path) \in DOMAIN dir
           t1 == [tasks[i] EXCEPT !.puts = IF opened THEN @ + 1 ELSE @]
       IN /\ tasks' = [tasks EXCEPT ![i] = AfterFailure(t1)]
          /\ dir' = IF AfterFailure(t1).pc = "exhausted"
                    THEN [f \in DOMAIN dir \ {PathBase(tasks[i].path)} |-> dir[f]]
                    ELSE dir
    /\ UNCHANGED <<cfg, now, nextTick, tickPending, cancelled, recPc, upPc,
                   nextId, messageChan, fileChan, currentFiles, fws,
                   files, remote, dropped, restarts,
                   exit>>

\* uploadFile fails: os.Open fails (no such file) or PutObject fails
TaskAttemptFail(i) ==
    /\ exit = "none"
    /\ i \in DOMAIN tasks
    /\ tasks[i].pc = "try"
    /\ LET opened == PathBase(tasks[i].path) \in DOMAIN dir
           t1 == [tasks[i] EXCEPT !.puts = IF opened THEN @ + 1 ELSE @]
       IN tasks' = [tasks EXCEPT ![i] = AfterFailure(t1)]
    /\ UNCHANGED <<cfg, now, nextTick, tickPending, cancelled, recPc, upPc,
                   nextId, messageChan, fileChan, currentFiles, fws, dir,
                   files, remote, dropped, restarts,
                   exit>>

\* case <-time.After(backoff): the sleep ends, next iteration of the loop
TaskBackoffEnd(i) ==
    /\ exit = "none"
    /\ i \in DOMAIN tasks
    /\ tasks[i].pc = "backoff"
    /\ tasks' = [tasks EXCEPT ![i].pc = "try",
                              ![i].slept = Append(@, Pow2(tasks[i].attempt)),
                              ![i].attempt = @ + 1]
    /\ UNCHANGED <<cfg, now, nextTick, tickPending, cancelled, recPc, upPc,
                   nextId, messageChan, fileChan, currentFiles, fws, dir,
                   files, remote, dropped, restarts,
                   exit>>

\* case <-ctx.Done(): the sleep is abandoned
TaskBackoffCancel(i) ==
    /\ exit = "none"
    /\ i \in DOMAIN tasks
    /\ tasks[i].pc = "backoff"
    /\ cancelled
    /\ tasks' = [tasks EXCEPT ![i].pc = "aborted"]
    /\ UNCHANGED <<cfg, now, nextTick, tickPending, cancelled, recPc, upPc,
                   nextId, messageChan, fileChan, currentFiles, fws, dir,
                   files, remote, dropped, restarts,
                   exit>>

\* a consumer loop that uploads in place: it receives only when no upload
\* is running
UploaderReceiveSerial ==
    /\ exit = "none"
    /\ upPc = "running"
    /\ fileChan # <<>>
    /\ Len(tasks) < MaxTasks
    /\ \A j \in DOMAIN tasks : tasks[j].pc \notin {"try", "backoff"}
    /\ tasks' = Append(tasks, NewTask(Head(fileChan)))
    /\ fileChan' = Tail(fileChan)
    /\ UNCHANGED <<cfg, now, nextTick, tickPending, cancelled, recPc, upPc,
                   nextId, messageChan, currentFiles, fws, dir, files, remote,
                   dropped, restarts, exit>>

\* Uploader.Start, case localPath := <-fileChan
UploaderReceive ==
    /\ exit = "none"
    /\ upPc = "running"
    /\ fileChan # <<>>
    /\ Len(tasks) < MaxTasks
    /\ tasks' = Append(tasks, NewTask(Head(fileChan)))
    /\ fileChan' = Tail(fileChan)
    /\ UNCHANGED <<cfg, now, nextTick, tickPending, cancelled, recPc, upPc,
                   nextId, messageChan, currentFiles, fws, dir, files, remote,
                   dropped, restarts,
                   exit>>

\* Uploader.Start, case <-ctx.Done()
UploaderStop ==
    /\ exit = "none"
    /\ upPc = "running"
    /\ cancelled
    /\ upPc' = "returned"
    /\ UNCHANGED <<cfg, now, nextTick, tickPending, cancelled, recPc, nextId,
                   messageChan, fileChan, currentFiles, fws, dir, files,
                   remote, tasks, dropped, restarts,
                   exit>>

\* the scan without its entry.IsDir() test
ScanFilesWithDirs(d) ==
    {PathJoin(OutputDir, f) : f \in {g \in DOMAIN d : g.ext = "jsonl"}}

\* ScanAndUploadExisting: the paths of the regular files ending in .jsonl
ScanFiles(d) ==
    {PathJoin(OutputDir, f) : f \in {g \in DOMAIN d : ~g.isDir /\ g.ext = "jsonl"}}

RECURSIVE SetToSeq(_)
SetToSeq(S) ==
    IF S = {} THEN <<>>
    ELSE LET x == CHOOSE y \in S : TRUE IN <<x>> \o SetToSeq(S \ {x})

\* ScanAndUploadExisting: one goroutine per file found
ScanAndUploadExisting(d) ==
    LET paths == SetToSeq(ScanFiles(d))
    IN [j \in 1..Len(paths) |-> NewTask(paths[j])]

-----------------------------------------------------------------------------
(* Sources, clock and signals *)

\* a connector that gives its Event up when the channel is full
SourceSendDrops ==
    /\ exit = "none"
    /\ nextId <= MaxEvents
    /\ IF Len(messageChan) < cfg.bufferSize
       THEN \E p \in Platforms, c \in Channels :
                messageChan' = Append(messageChan, Message(p, c, nextId))
       ELSE messageChan' = messageChan
    /\ nextId' = nextId + 1
    /\ UNCHANGED <<cfg, now, nextTick, tickPending, cancelled, recPc, upPc,
                   fileChan, currentFiles, fws, dir, files, remote, tasks,
                   dropped, restarts, exit>>

\* a connector's select { case messageChan <- chatMessage: ; case <-ctx.Done(): }
\* the send branch; the channel holds cfg.bufferSize messages
SourceSend ==
    /\ exit = "none"
    /\ nextId <= MaxEvents
    /\ Len(messageChan) < cfg.bufferSize
    /\ \E p \in Platforms, c \in Channels :
           messageChan' = Append(messageChan, Message(p, c, nextId))
    /\ nextId' = nextId + 1
    /\ UNCHANGED <<cfg, now, nextTick, tickPending, cancelled, recPc, upPc,
                   fileChan, currentFiles, fws, dir, files, remote, tasks,
                   dropped, restarts,
                   exit>>

\* the same select, the branch case <-ctx.Done(): the connector returns with
\* its Event unsent
SourceGiveUp ==
    /\ exit = "none"
    /\ nextId <= MaxEvents
    /\ cancelled
    /\ nextId' = nextId + 1
    /\ UNCHANGED <<cfg, now, nextTick, tickPending, cancelled, recPc, upPc,
                   messageChan, fileChan, currentFiles, fws, dir, files,
                   remote, tasks, dropped, restarts, exit>>

\* the wall clock advances by one tick; the ticker of Recorder.Start puts a
\* tick into ticker.C every minute while the Recorder runs
Advance ==
    /\ now < MaxTime
    /\ now' = now + 1
    /\ IF exit = "none" /\ recPc = "running" /\ now + 1 >= nextTick
       THEN /\ tickPending' = TRUE
            /\ nextTick' = nextTick + TickerMinutes * TicksPerMinute
       ELSE UNCHANGED <<tickPending, nextTick>>
    /\ UNCHANGED <<cfg, cancelled, recPc, upPc, nextId, messageChan, fileChan,
                   currentFiles, fws, dir, files, remote, tasks, dropped,
                   restarts,
                   exit>>

\* main: the signal goroutine calls cancel()
Cancel ==
    /\ exit = "none"
    /\ ~cancelled
    /\ cancelled' = TRUE
    /\ UNCHANGED <<cfg, now, nextTick, tickPending, recPc, upPc, nextId,
                   messageChan, fileChan, currentFiles, fws, dir, files,
                   remote, tasks, dropped, restarts,
                   exit>>

\* main: wg.Wait() returns once Recorder.Start and Uploader.Start have
\* returned (the goroutines of uploadWithRetry are not added to wg); "All
\* components stopped gracefully", os.Exit(0)
ExitGraceful ==
    /\ exit = "none"
    /\ cancelled
    /\ recPc = "returned"
    /\ upPc = "returned"
    /\ exit' = "graceful"
    /\ UNCHANGED <<cfg, now, nextTick, tickPending, cancelled, recPc, upPc,
                   nextId, messageChan, fileChan, currentFiles, fws, dir,
                   files, remote, tasks, dropped, restarts>>

\* main: case <-shutdownCtx.Done() after cancel(): "Shutdown timeout
\* exceeded, forcing exit", os.Exit(0)
ExitTimeout ==
    /\ exit = "none"
    /\ cancelled
    /\ exit' = "timeout"
    /\ UNCHANGED <<cfg, now, nextTick, tickPending, cancelled, recPc, upPc,
                   nextId, messageChan, fileChan, currentFiles, fws, dir,
                   files, remote, tasks, dropped, restarts>>

-----------------------------------------------------------------------------
(* Recorder.Start: the three branches of its select *)

\* case msg := <-messageChan
RecordMessage ==
    /\ exit = "none"
    /\ recPc = "running"
    /\ messageChan # <<>>
    /\ SetRecState(RecordMessageOp(RecState, Head(messageChan), now))
    /\ messageChan' = Tail(messageChan)
    /\ UNCHANGED <<cfg, now, nextTick, tickPending, cancelled, recPc, upPc,
                   nextId, remote, tasks, restarts,
                   exit>>

\* case <-ticker.C
CheckRotation ==
    /\ exit = "none"
    /\ recPc = "running"
    /\ tickPending
    /\ \E order \in KeyOrders :
           SetRecState(CheckRotationLoop(RecState, order, now))
    /\ tickPending' = FALSE
    /\ UNCHANGED <<cfg, now, nextTick, cancelled, recPc, upPc, nextId,
                   messageChan, remote, tasks, restarts,
                   exit>>

\* Recorder.Start: os.MkdirAll succeeds and the ticker is set up
RecorderMkdirOk ==
    /\ exit = "none"
    /\ recPc = "starting"
    /\ recPc' = "running"
    /\ nextTick' = now + TickerMinutes * TicksPerMinute
    /\ UNCHANGED <<cfg, now, tickPending, cancelled, upPc, nextId, messageChan,
                   fileChan, currentFiles, fws, dir, files, remote, tasks,
                   dropped, restarts, exit>>

\* Recorder.Start: os.MkdirAll fails and Start returns the error; the
\* goroutine in main logs it and ends
RecorderMkdirFails ==
    /\ exit = "none"
    /\ recPc = "starting"
    /\ recPc' = "failed"
    /\ UNCHANGED <<cfg, now, nextTick, tickPending, cancelled, upPc, nextId,
                   messageChan, fileChan, currentFiles, fws, dir, files,
                   remote, tasks, dropped, restarts, exit>>

\* a Recorder.Start that returns the error of recordMessage
RecordMessageCreateFailsStops ==
    /\ exit = "none"
    /\ recPc = "running"
    /\ messageChan # <<>>
    /\ currentFiles[Key(Head(messageChan).platform, Head(messageChan).channel)] = 0
    /\ messageChan' = Tail(messageChan)
    /\ recPc' = "returned"
    /\ UNCHANGED <<cfg, now, nextTick, tickPending, cancelled, upPc,
                   nextId, fileChan, currentFiles, fws, dir, files, remote,
                   tasks, dropped, restarts, exit>>

\* case msg := <-messageChan, when createFileWriter fails: recordMessage
\* returns the error, which Start logs
RecordMessageCreateFails ==
    /\ exit = "none"
    /\ recPc = "running"
    /\ messageChan # <<>>
    /\ currentFiles[Key(Head(messageChan).platform, Head(messageChan).channel)] = 0
    /\ messageChan' = Tail(messageChan)
    /\ UNCHANGED <<cfg, now, nextTick, tickPending, cancelled, recPc, upPc,
                   nextId, fileChan, currentFiles, fws, dir, files, remote,
                   tasks, dropped, restarts, exit>>

\* case msg := <-messageChan, when the flush of the full buffer fails
RecordMessageFlushFails ==
    /\ exit = "none"
    /\ recPc = "running"
    /\ messageChan # <<>>
    /\ LET msg == Head(messageChan)
           i == currentFiles[Key(msg.platform, msg.channel)]
           b == BufferAfterAppend(RecState, msg)
       IN /\ i # 0 => ~fws[i].werr
          /\ Len(b) >= cfg.bufferSize
          /\ \E kj \in FailPoints(b) :
                 SetRecState(RecordMessageFlushFailsOp(RecState, msg, now, kj))
    /\ messageChan' = Tail(messageChan)
    /\ UNCHANGED <<cfg, now, nextTick, tickPending, cancelled, recPc, upPc,
                   nextId, remote, tasks, restarts, exit>>

\* case <-ticker.C, when the rotation of one writer meets a failing flush or
\* a failing createFileWriter
CheckRotationFaulty ==
    /\ exit = "none"
    /\ recPc = "running"
    /\ tickPending
    /\ \E order \in KeyOrders, fk \in Keys, createFails \in BOOLEAN :
           /\ currentFiles[fk] # 0
           /\ NeedsRotation(fws[currentFiles[fk]], now)
           /\ \E kj \in FailPoints(fws[currentFiles[fk]].messageBuffer) \cup {<<0, 0>>} :
                  /\ createFails \/ (kj # <<0, 0>> /\ ~fws[currentFiles[fk]].werr)
                  /\ SetRecState(CheckRotationLoopFaulty(RecState, order, now, fk,
                                                         kj, createFails))
    /\ tickPending' = FALSE
    /\ UNCHANGED <<cfg, now, nextTick, cancelled, recPc, upPc, nextId,
                   messageChan, remote, tasks, restarts, exit>>

\* case <-ctx.Done() of a Recorder that takes one more Event from the channel
\* before flushAll
ShutdownDrains ==
    /\ exit = "none"
    /\ recPc = "running"
    /\ cancelled
    /\ \E order \in KeyOrders :
           SetRecState(FlushAllLoop(IF messageChan = <<>> THEN RecState
                                    ELSE RecordMessageOp(RecState, Head(messageChan), now),
                                    order))
    /\ messageChan' = IF messageChan = <<>> THEN messageChan ELSE Tail(messageChan)
    /\ recPc' = "returned"
    /\ tickPending' = FALSE
    /\ UNCHANGED <<cfg, now, nextTick, cancelled, upPc, nextId,
                   remote, tasks, restarts,
                   exit>>

\* case <-ctx.Done(): flushAll, then return
Shutdown ==
    /\ exit = "none"
    /\ recPc = "running"
    /\ cancelled
    /\ \E order \in KeyOrders : SetRecState(FlushAllLoop(RecState, order))
    /\ recPc' = "returned"
    /\ tickPending' = FALSE
    /\ UNCHANGED <<cfg, now, nextTick, cancelled, upPc, nextId, messageChan,
                   remote, tasks, restarts,
                   exit>>

-----------------------------------------------------------------------------
(* Process start *)

\* a file found in the output directory that the Recorder did not write
StrayName == [stem |-> <<"notes">>, ext |-> "jsonl", isDir |-> FALSE]

NoWriters == [k \in Keys |-> 0]

\* the directory after a process death: every descriptor is closed, so only
\* linked inodes remain; they are renumbered 1..n
LinkedNames(d) == SetToSeq(DOMAIN d)

\* the process dies (crash, kill, or exit after shutdown) and main runs again:
\* the fileWriters with their buffered Events and the queued messages and
\* paths are gone, the files in the output directory stay
Restart ==
    /\ restarts < MaxRestarts
    /\ Cardinality(ScanFiles(dir)) <= MaxTasks
    /\ restarts' = restarts + 1
    /\ fws' = <<>>
    /\ currentFiles' = NoWriters
    /\ messageChan' = <<>>
    /\ fileChan' = <<>>
    /\ cancelled' = FALSE
    /\ exit' = "none"
    /\ recPc' = "running"
    /\ upPc' = "running"
    /\ tickPending' = FALSE
    /\ nextTick' = now + TickerMinutes * TicksPerMinute
    /\ LET names == LinkedNames(dir)
       IN /\ files' = [j \in 1..Len(names) |-> files[dir[names[j]]]]
          /\ dir' = [f \in DOMAIN dir |-> CHOOSE j \in 1..Len(names) : names[j] = f]
    /\ tasks' = ScanAndUploadExisting(dir)
    /\ UNCHANGED <<cfg, now, nextId, remote, dropped>>

Configs ==
    [bufferSize : BufferSizes, rotateMinutes : {1}, rotateMegabytes : {1},
     deleteAfter : BOOLEAN, maxRetries : {1}]

Init ==
    /\ cfg \in Configs
    /\ now = 0
    /\ nextTick = TickerMinutes * TicksPerMinute
    /\ tickPending = FALSE
    /\ cancelled = FALSE
    /\ recPc = "running"
    /\ upPc = "running"
    /\ nextId = 1
    /\ messageChan = <<>>
    /\ fileChan = <<>>
    /\ currentFiles = NoWriters
    /\ fws = <<>>
    /\ dir = (StrayName :> 1)
    /\ files = << <<>> >>
    /\ remote = <<>>
    /\ tasks = ScanAndUploadExisting(dir)
    /\ dropped = {}
    /\ restarts = 0
    /\ exit = "none"

Next ==
    \/ SourceSend
    \/ Advance
    \/ Cancel
    \/ RecordMessage
    \/ CheckRotation
    \/ Shutdown
    \/ UploaderReceive
    \/ UploaderStop
    \/ \E i \in 1..MaxTasks : TaskAttemptOk(i)
    \/ \E i \in 1..MaxTasks : TaskAttemptFail(i)
    \/ \E i \in 1..MaxTasks : TaskBackoffEnd(i)
    \/ \E i \in 1..MaxTasks : TaskBackoffCancel(i)
    \/ ExitGraceful
    \/ ExitTimeout
    \/ Restart

Spec == Init /\ [][Next]_vars

\* segment files left in the output directory by an earlier run
OldSegments ==
    {FileName("twitch", <<"ludwig">>, 0), FileName("twitch", <<"some", "name">>, 0)}

\* a process run in which no Event arrives: the upload tasks of the start-up
\* scan work on the files an earlier run left behind
InitUpload ==
    /\ cfg \in [bufferSize : {1}, rotateMinutes : {1}, rotateMegabytes : {1},
                 deleteAfter : BOOLEAN, maxRetries : 0..MaxRetriesBound]
    /\ now = 0
    /\ nextTick = TickerMinutes * TicksPerMinute
    /\ tickPending = FALSE
    /\ cancelled = FALSE
    /\ recPc = "running"
    /\ upPc = "running"
    /\ nextId = 1
    /\ messageChan = <<>>
    /\ fileChan = <<>>
    /\ currentFiles = NoWriters
    /\ fws = <<>>
    /\ LET names == SetToSeq(OldSegments \cup {StrayName})
       IN /\ dir = [f \in OldSegments \cup {StrayName} |->
                        CHOOSE j \in 1..Len(names) : names[j] = f]
          /\ files = [j \in 1..Len(names) |->
                        IF names[j] = StrayName THEN <<>>
                        ELSE <<Message(names[j].stem[1],
                                       SubSeq(names[j].stem, 2, Len(names[j].stem) - 2),
                                       0)>>]
    /\ remote = <<>>
    /\ tasks = ScanAndUploadExisting(dir)
    /\ dropped = {}
    /\ restarts = 0
    /\ exit = "none"

NextUpload ==
    \/ Cancel
    \/ Shutdown
    \/ UploaderStop
    \/ \E i \in 1..MaxTasks : TaskAttemptOk(i)
    \/ \E i \in 1..MaxTasks : TaskAttemptFail(i)
    \/ \E i \in 1..MaxTasks : TaskBackoffEnd(i)
    \/ \E i \in 1..MaxTasks : TaskBackoffCancel(i)
    \/ ExitGraceful
    \/ ExitTimeout

SpecUpload == InitUpload /\ [][NextUpload]_vars

\* the Recorder with its environment: upload tasks are started but do not run
NextRecorder ==
    \/ SourceSend
    \/ Advance
    \/ Cancel
    \/ RecordMessage
    \/ CheckRotation
    \/ Shutdown
    \/ UploaderReceive
    \/ UploaderStop
    \/ Restart

SpecRecorder == Init /\ [][NextRecorder]_vars

-----------------------------------------------------------------------------
(* Start-up over a directory left by an earlier run *)

\* entries an output directory may hold when the process starts
ExampleName == [stem |-> <<"twitch", "ludwig", "20251230", "1030">>,
                ext |-> "jsonl", isDir |-> FALSE]
LongName == [stem |-> <<"twitch", "some", "long", "name", "20251230", "1030">>,
             ext |-> "jsonl", isDir |-> FALSE]
ShortName == [stem |-> <<"twitch", "20251230", "1030">>,
              ext |-> "jsonl", isDir |-> FALSE]
BadTimeName == [stem |-> <<"twitch", "ludwig", "20251230", "2460">>,
                ext |-> "jsonl", isDir |-> FALSE]
BadDateName == [stem |-> <<"twitch", "ludwig", "20251232", "1030">>,
                ext |-> "jsonl", isDir |-> FALSE]
OtherExtName == [stem |-> <<"twitch", "ludwig", "20251230", "1030">>,
                 ext |-> "txt", isDir |-> FALSE]
DirName == [stem |-> <<"twitch", "archive", "20251230", "1030">>,
            ext |-> "jsonl", isDir |-> TRUE]

\* the clock values at which the process may start: 23:58 and 00:00 next day
StartTimes == {0, 2 * TicksPerMinute}

ScanNames ==
    {ExampleName, LongName, ShortName, StrayName, BadTimeName, BadDateName,
     OtherExtName, DirName}
    \cup {FileName("twitch", <<"ludwig">>, t) : t \in StartTimes}

\* the single line a file of the earlier run holds
OldLine(name) == Message("twitch", name.stem, 0)

\* the earlier run has ended; its directory holds one or two entries
InitScan ==
    /\ cfg \in [bufferSize : {1}, rotateMinutes : {1}, rotateMegabytes : {1},
                 deleteAfter : BOOLEAN, maxRetries : {1}]
    /\ now \in StartTimes
    /\ nextTick = now + TickerMinutes * TicksPerMinute
    /\ tickPending = FALSE
    /\ cancelled = TRUE
    /\ recPc = "returned"
    /\ upPc = "returned"
    /\ nextId = 1
    /\ messageChan = <<>>
    /\ fileChan = <<>>
    /\ currentFiles = NoWriters
    /\ fws = <<>>
    /\ \E S \in SUBSET ScanNames :
           /\ Cardinality(S) \in 1..2
           /\ LET names == SetToSeq(S)
              IN /\ dir = [f \in S |-> CHOOSE j \in 1..Len(names) : names[j] = f]
                 /\ files = [j \in 1..Len(names) |->
                               IF names[j].isDir THEN <<>> ELSE <<OldLine(names[j])>>]
    /\ remote = <<>>
    /\ tasks = <<>>
    /\ dropped = {}
    /\ restarts = 0
    /\ exit = "graceful"

\* main starts once over the directory the earlier run left
StartUp == restarts = 0 /\ Restart

NextScan ==
    \/ StartUp
    \/ SourceSend
    \/ RecordMessage
    \/ Cancel
    \/ \E i \in 1..MaxTasks : TaskAttemptOk(i)
    \/ \E i \in 1..MaxTasks : TaskAttemptFail(i)
    \/ \E i \in 1..MaxTasks : TaskBackoffEnd(i)
    \/ \E i \in 1..MaxTasks : TaskBackoffCancel(i)

SpecScan == InitScan /\ [][NextScan]_vars

-----------------------------------------------------------------------------
(* One process run in which the local disk may fail *)

InitFaults ==
    /\ cfg \in Configs
    /\ now = 0
    /\ nextTick = TickerMinutes * TicksPerMinute
    /\ tickPending = FALSE
    /\ cancelled = FALSE
    /\ recPc = "starting"
    /\ upPc = "running"
    /\ nextId = 1
    /\ messageChan = <<>>
    /\ fileChan = <<>>
    /\ currentFiles = NoWriters
    /\ fws = <<>>
    /\ dir = (StrayName :> 1)
    /\ files = << <<>> >>
    /\ remote = <<>>
    /\ tasks = ScanAndUploadExisting(dir)
    /\ dropped = {}
    /\ restarts = 0
    /\ exit = "none"

NextFaults ==
    \/ SourceSend
    \/ Advance
    \/ Cancel
    \/ RecorderMkdirOk
    \/ RecorderMkdirFails
    \/ RecordMessage
    \/ RecordMessageCreateFails
    \/ RecordMessageFlushFails
    \/ CheckRotation
    \/ CheckRotationFaulty
    \/ Shutdown
    \/ UploaderReceive
    \/ UploaderStop
    \/ \E i \in 1..MaxTasks : TaskAttemptOk(i)
    \/ \E i \in 1..MaxTasks : TaskAttemptOkRemoveFails(i)
    \/ \E i \in 1..MaxTasks : TaskAttemptFail(i)
    \/ \E i \in 1..MaxTasks : TaskBackoffEnd(i)
    \/ \E i \in 1..MaxTasks : TaskBackoffCancel(i)

SpecFaults == InitFaults /\ [][NextFaults]_vars

-----------------------------------------------------------------------------
(* The source collaborators against the Recorder and the shutdown signal *)

NextSources ==
    \/ SourceSend
    \/ SourceGiveUp
    \/ Advance
    \/ Cancel
    \/ RecordMessage
    \/ CheckRotation
    \/ Shutdown

SpecSources == Init /\ [][NextSources]_vars

-----------------------------------------------------------------------------
(* The Recorder over two ticks of its ticker *)

\* the clock value of the second tick
IdleHorizon == 2 * TickerMinutes * TicksPerMinute

\* the wall clock advances by one tick, up to the second tick of the ticker
AdvanceIdle ==
    /\ now < IdleHorizon
    /\ now' = now + 1
    /\ IF exit = "none" /\ recPc = "running" /\ now + 1 >= nextTick
       THEN /\ tickPending' = TRUE
            /\ nextTick' = nextTick + TickerMinutes * TicksPerMinute
       ELSE UNCHANGED <<tickPending, nextTick>>
    /\ UNCHANGED <<cfg, cancelled, recPc, upPc, nextId, messageChan, fileChan,
                   currentFiles, fws, dir, files, remote, tasks, dropped,
                   restarts,
                   exit>>

NextIdle ==
    \/ SourceSend
    \/ AdvanceIdle
    \/ Cancel
    \/ RecordMessage
    \/ CheckRotation
    \/ Shutdown
    \/ UploaderReceive

SpecIdle == Init /\ [][NextIdle]_vars

-----------------------------------------------------------------------------
(* config.Load *)

\* the values Load puts in place of a zero field
DefaultBufferSize == 100
DefaultRotateMinutes == 60
DefaultRotateMegabytes == 100
DefaultCheckIntervalSeconds == 60
DefaultMaxRetries == 3

\* the yaml tags of the fields of RecorderConfig and UploaderConfig
YamlKeys == {"buffer_size", "rotate_minutes", "rotate_megabytes",
             "check_interval_seconds", "max_retries", "delete_after_upload"}

\* configuration files: any subset of the keys, each with a value of its type
YamlDocs ==
    LET Full == [buffer_size : BufferSizes, rotate_minutes : {1},
                 rotate_megabytes : {1}, check_interval_seconds : {1},
                 max_retries : {1}, delete_after_upload : BOOLEAN]
    IN {[k \in S |-> f[k]] : f \in Full, S \in SUBSET YamlKeys}

\* yaml.Unmarshal of one key into a zero-initialised field
YamlField(doc, k, zero) == IF k \in DOMAIN doc THEN doc[k] ELSE zero

\* yaml.Unmarshal(data, &cfg) with var cfg Config
Unmarshal(doc) ==
    [bufferSize |-> YamlField(doc, "buffer_size", 0),
     rotateMinutes |-> YamlField(doc, "rotate_minutes", 0),
     rotateMegabytes |-> YamlField(doc, "rotate_megabytes", 0),
     checkIntervalSeconds |-> YamlField(doc, "check_interval_seconds", 0),
     maxRetries |-> YamlField(doc, "max_retries", 0),
     deleteAfter |-> YamlField(doc, "delete_after_upload", FALSE)]

\* Load: the parsed struct with its defaults set; DeleteAfterUpload is the
\* subject of a comment only and keeps the parsed value
Load(doc) ==
    LET c == Unmarshal(doc)
    IN [bufferSize |-> IF c.bufferSize = 0 THEN DefaultBufferSize ELSE c.bufferSize,
        rotateMinutes |-> IF c.rotateMinutes = 0 THEN DefaultRotateMinutes
                          ELSE c.rotateMinutes,
        rotateMegabytes |-> IF c.rotateMegabytes = 0 THEN DefaultRotateMegabytes
                            ELSE c.rotateMegabytes,
        checkIntervalSeconds |-> IF c.checkIntervalSeconds = 0
                                 THEN DefaultCheckIntervalSeconds
                                 ELSE c.checkIntervalSeconds,
        maxRetries |-> IF c.maxRetries = 0 THEN DefaultMaxRetries ELSE c.maxRetries,
        deleteAfter |-> c.deleteAfter]

\* the process before main has read its configuration file: cfg holds the
\* file, nothing has been scanned or started
InitConfig ==
    /\ cfg \in [yaml : YamlDocs]
    /\ now = 0
    /\ nextTick = TickerMinutes * TicksPerMinute
    /\ tickPending = FALSE
    /\ cancelled = FALSE
    /\ recPc = "starting"
    /\ upPc = "running"
    /\ nextId = 1
    /\ messageChan = <<>>
    /\ fileChan = <<>>
    /\ currentFiles = NoWriters
    /\ fws = <<>>
    /\ dir = (StrayName :> 1)
    /\ files = << <<>> >>
    /\ remote = <<>>
    /\ tasks = <<>>
    /\ dropped = {}
    /\ restarts = 0
    /\ exit = "none"

\* main: cfg, err := config.Load(*configPath)
ConfigLoad ==
    /\ "yaml" \in DOMAIN cfg
    /\ cfg' = Load(cfg.yaml)
    /\ UNCHANGED <<now, nextTick, tickPending, cancelled, recPc, upPc, nextId,
                   messageChan, fileChan, currentFiles, fws, dir, files,
                   remote, tasks, dropped, restarts, exit>>

NextConfig == ConfigLoad

SpecConfig == InitConfig /\ [][NextConfig]_vars

-----------------------------------------------------------------------------
(* Properties *)

KeyOf(fw) == Key(fw.platform, fw.channel)

\* the fileWriters whose file is open
Live == {i \in DOMAIN fws : fws[i].status = "open"}

Lines(q) == {q[n] : n \in DOMAIN q}

\* how often line x occurs in q
RECURSIVE Count(_, _)
Count(q, x) ==
    IF q = <<>> THEN 0 ELSE (IF Head(q) = x THEN 1 ELSE 0) + Count(Tail(q), x)

\* the lines held by the files of the output directory, and by the store
LocalLines == UNION {Lines(files[dir[f]]) : f \in DOMAIN dir}
RemoteLines == UNION {Lines(remote[k]) : k \in DOMAIN remote}
Stored == LocalLines \cup RemoteLines

\* the Events passed to recordMessage for key k, in arrival order: those
\* accepted by the first n fileWriters
RECURSIVE AcceptedOf(_, _)
AcceptedOf(k, n) ==
    IF n = 0 THEN <<>>
    ELSE AcceptedOf(k, n - 1) \o (IF KeyOf(fws[n]) = k THEN fws[n].accepted ELSE <<>>)

\* the contents of the segment files of key k among the first n inodes,
\* concatenated in file-creation order
RECURSIVE ContentOf(_, _)
ContentOf(k, n) ==
    IF n = 0 THEN <<>>
    ELSE ContentOf(k, n - 1)
         \o (IF \E i \in DOMAIN fws : fws[i].inode = n /\ KeyOf(fws[i]) = k
             THEN files[n] ELSE <<>>)

\* C1: once the Recorder has returned from a run without process restart, for
\* every key the segment files of the key, concatenated in creation order,
\* hold exactly the Events recorded for the key, in arrival order
C1_SegmentsReproduceEvents ==
    (recPc = "returned" /\ restarts = 0) =>
        \A k \in Keys : ContentOf(k, Len(files)) = AcceptedOf(k, Len(fws))

\* the lines written through a fileWriter by the current step
NewlyWritten ==
    UNION {Lines(fws'[i].wrote) \ (IF i \in DOMAIN fws THEN Lines(fws[i].wrote) ELSE {})
           : i \in DOMAIN fws'}

\* C2: every Event that is in a local file or in the store, or that the step
\* flushes to a segment file, is in a local file or in the store after the
\* step, for every step of the pipeline including a restart
C2_FlushedEventsStayStored ==
    [][(Stored \cup NewlyWritten) \subseteq Stored']_vars

\* C3: in every reachable state at most one fileWriter per (platform, channel)
\* has an open file, and it is the one the map currentFiles holds for the key
C3_OneLiveWriter ==
    \A k \in Keys :
        /\ Cardinality({i \in Live : KeyOf(fws[i]) = k}) <= 1
        /\ \A i \in Live : KeyOf(fws[i]) = k => currentFiles[k] = i
        /\ currentFiles[k] # 0 => currentFiles[k] \in Live

\* a key whose writer was rotated: a closed writer and its open replacement
C3_Witness ==
    \E i, j \in DOMAIN fws :
        /\ fws[i].status = "closed"
        /\ fws[j].status = "open"
        /\ KeyOf(fws[i]) = KeyOf(fws[j])


\* C4: an Event is appended only to the open fileWriter the map holds for its
\* key; every Event a writer accepted is either pending in that writer or was
\* written once through it; it is in no file but that writer's, at most once;
\* and no closed writer has pending Events
C4_EventInOneWriter ==
    [][/\ \A i \in DOMAIN fws' :
            LET old == IF i \in DOMAIN fws THEN fws[i].accepted ELSE <<>>
            IN fws'[i].accepted # old =>
                   /\ fws'[i].status = "open"
                   /\ currentFiles'[KeyOf(fws'[i])] = i
                   /\ i \in DOMAIN fws =>
                          fws[i].status = "open" /\ currentFiles[KeyOf(fws[i])] = i
       /\ \A i \in DOMAIN fws' :
            /\ fws'[i].accepted = fws'[i].wrote \o fws'[i].messageBuffer
            /\ fws'[i].status # "open" => fws'[i].messageBuffer = <<>>
            /\ \A x \in Lines(fws'[i].accepted) :
                 /\ Count(fws'[i].accepted, x) = 1
                 /\ \A j \in DOMAIN fws' \ {i} : x \notin Lines(fws'[j].accepted)
                 /\ \A n \in DOMAIN files' :
                        /\ x \in Lines(files'[n]) => n = fws'[i].inode
                        /\ Count(files'[n], x) <= 1]_vars

\* an Event was accepted by the replacement writer of a rotated key and
\* flushed to its file, while the rotated writer holds another Event
C4_Witness ==
    \E i, j \in DOMAIN fws :
        /\ i # j
        /\ KeyOf(fws[i]) = KeyOf(fws[j])
        /\ fws[i].status = "closed"
        /\ fws[i].wrote # <<>>
        /\ fws[j].wrote # <<>>
        /\ fws[i].inode # fws[j].inode

\* C5: a segment file that no fileWriter holds open keeps its content in
\* every step that leaves it in the directory and no writer opens it; and no
\* two fileWriters of a process run ever open the same file
C5_ClosedSegmentImmutable ==
    [][/\ \A f \in DOMAIN dir :
            (f \in DOMAIN dir' /\ \A i \in Live : fws[i].inode # dir[f]) =>
                /\ files'[dir'[f]] = files[dir[f]]
                /\ \A i \in DOMAIN fws' :
                       fws'[i].status = "open" => fws'[i].inode # dir'[f]
       /\ \A i, j \in DOMAIN fws' : i # j => fws'[i].inode # fws'[j].inode]_vars

\* C6: a file leaves the output directory only in the step of an upload task
\* whose put-object call for that path succeeded, with delete-after-upload
\* enabled and after the store holds the file's content; a task that ends in
\* any other way has removed nothing
C6_DeleteOnlyAfterUpload ==
    [][/\ \A f \in DOMAIN dir :
            f \notin DOMAIN dir' =>
                /\ cfg.deleteAfter
                /\ \E j \in DOMAIN tasks :
                       /\ j \in DOMAIN tasks'
                       /\ tasks[j].pc = "try"
                       /\ PathBase(tasks[j].path) = f
                       /\ tasks'[j].pc = "uploaded"
                       /\ tasks'[j].puts = tasks[j].puts + 1
                       /\ tasks[j].s3Key \in DOMAIN remote'
                       /\ remote'[tasks[j].s3Key] = files[dir[f]]
       /\ \A j \in DOMAIN tasks' :
            /\ tasks'[j].removed => (tasks'[j].pc = "uploaded" /\ cfg.deleteAfter)
            /\ (j \in DOMAIN tasks /\ tasks'[j] # tasks[j]
                  /\ tasks'[j].pc \in {"backoff", "try", "exhausted", "aborted"})
                 => DOMAIN dir' = DOMAIN dir
            /\ tasks'[j].pc = "badname" => ~tasks'[j].removed]_vars

\* one task has deleted its file after a success on the retry, another has
\* exhausted its retries and a third was refused for its name
C6_Witness ==
    /\ \E j \in DOMAIN tasks :
           tasks[j].removed /\ tasks[j].puts = 2 /\ PathBase(tasks[j].path) \notin DOMAIN dir
    /\ \E j \in DOMAIN tasks :
           tasks[j].pc = "exhausted" /\ PathBase(tasks[j].path) \in DOMAIN dir
    /\ \E j \in DOMAIN tasks :
           tasks[j].pc = "badname" /\ PathBase(tasks[j].path) \in DOMAIN dir


\* C7: a task never makes more than maxRetries+1 put attempts and never
\* sleeps more than maxRetries backoffs, each sleep lying between two
\* attempts; a task whose attempts all failed has made exactly maxRetries+1
\* attempts and maxRetries sleeps, and its file is still in the directory
C7_BoundedAttempts ==
    \A j \in DOMAIN tasks :
        LET t == tasks[j]
        IN /\ t.puts <= cfg.maxRetries + 1
           /\ t.attempt <= cfg.maxRetries + 1
           /\ Len(t.slept) <= cfg.maxRetries
           /\ t.pc = "try" => (Len(t.slept) = t.puts /\ t.attempt = t.puts)
           /\ t.pc \in {"backoff", "uploaded", "exhausted", "aborted"} =>
                  Len(t.slept) = t.puts - 1
           /\ t.pc = "exhausted" =>
                  /\ t.puts = cfg.maxRetries + 1
                  /\ Len(t.slept) = cfg.maxRetries
                  /\ ~t.removed
                  /\ PathBase(t.path) \in DOMAIN dir

\* with maxRetries = 3 and no cancellation a task has failed four times
C7_Witness ==
    /\ cfg.maxRetries = 3
    /\ ~cancelled
    /\ \E j \in DOMAIN tasks :
           /\ tasks[j].pc = "exhausted"
           /\ tasks[j].puts = 4
           /\ tasks[j].slept = <<1, 2, 4>>

\* C8: the n-th backoff a task sleeps is 2^(n-1) seconds; a task that
\* succeeded after k failures has made k+1 attempts and k sleeps with
\* k <= maxRetries, its object is in the store, and its file is gone exactly
\* when delete-after-upload is enabled; before the success the file is there
C8_BackoffAndDelete ==
    \A j \in DOMAIN tasks :
        LET t == tasks[j]
            name == PathBase(t.path)
        IN /\ \A n \in DOMAIN t.slept : t.slept[n] = 2 ^ (n - 1)
           /\ t.pc = "uploaded" =>
                  /\ t.puts = Len(t.slept) + 1
                  /\ Len(t.slept) <= cfg.maxRetries
                  /\ t.s3Key \in DOMAIN remote
                  /\ t.removed = cfg.deleteAfter
                  /\ (name \in DOMAIN dir) = ~cfg.deleteAfter
           /\ t.pc # "uploaded" => (~t.removed /\ name \in DOMAIN dir)

\* maxRetries = 3, two failures then a success: three attempts, sleeps of 1s
\* and 2s, and the file deleted
C8_Witness ==
    /\ cfg.maxRetries = 3
    /\ cfg.deleteAfter
    /\ \E j \in DOMAIN tasks :
           /\ tasks[j].pc = "uploaded"
           /\ tasks[j].puts = 3
           /\ tasks[j].slept = <<1, 2>>
           /\ tasks[j].removed
           /\ PathBase(tasks[j].path) \notin DOMAIN dir

\* the key a segment file name belongs to
KeyOfName(name) == SubSeq(name.stem, 1, Len(name.stem) - 2)

\* C9: a step of the Recorder that skips an enqueue leaves the queue full
\* with its earlier paths in place, leaves the skipped file in the
\* directory, and (unless it is the shutdown) leaves the Recorder running
\* with an open replacement writer for the key; and the scan of a restart
\* starts an upload task for every .jsonl file of the directory
C9_DropDoesNotBlock ==
    [][/\ \A d \in dropped' \ dropped :
            /\ Len(fileChan') = FileChanCap
            /\ SubSeq(fileChan', 1, Len(fileChan)) = fileChan
            /\ PathBase(d.path) \in DOMAIN dir'
            /\ recPc = "running"
            /\ recPc' = "running" =>
                   LET w == currentFiles'[KeyOfName(PathBase(d.path))]
                   IN /\ w # 0
                      /\ fws'[w].status = "open"
                      /\ fws'[w].messageBuffer = <<>>
       /\ restarts' # restarts =>
            \A f \in DOMAIN dir :
                (~f.isDir /\ f.ext = "jsonl") =>
                    \E j \in DOMAIN tasks' :
                        /\ tasks'[j].path = PathJoin(OutputDir, f)
                        /\ tasks'[j].puts = 0
                        /\ tasks'[j].pc = IF GenerateS3Key(f).err THEN "badname" ELSE "try"]_vars

\* C10: the step in which Recorder.Start returns writes the pending Events
\* of every open fileWriter to its file, closes every file and empties the
\* map, whatever the Event channel and the queue hold; and nothing is open
\* once the Recorder has returned
C10_ShutdownFlushesAll ==
    [][/\ (recPc = "running" /\ recPc' = "returned") =>
            /\ DOMAIN fws' = DOMAIN fws
            /\ \A i \in Live :
                   /\ files'[fws[i].inode] = files[fws[i].inode] \o fws[i].messageBuffer
                   /\ fws'[i].wrote = fws[i].wrote \o fws[i].messageBuffer
            /\ messageChan' = messageChan
       /\ recPc' = "returned" =>
            /\ currentFiles' = NoWriters
            /\ \A i \in DOMAIN fws' :
                   fws'[i].status = "closed" /\ fws'[i].messageBuffer = <<>>]_vars

\* the Recorder returned before the first tick while an Event was still in
\* the channel; a writer that never filled its buffer has its Event on disk
C10_Witness ==
    /\ recPc = "returned"
    /\ restarts = 0
    /\ now < TickerMinutes * TicksPerMinute
    /\ messageChan # <<>>
    /\ cfg.bufferSize = 2
    /\ \E i \in DOMAIN fws :
           /\ Len(fws[i].accepted) = 1
           /\ files[fws[i].inode] = fws[i].accepted


\* the upload tasks that have not returned
Running == {j \in DOMAIN tasks : tasks[j].pc \in {"try", "backoff"}}

\* C11: when the process has exited through the graceful branch, the
\* Recorder has returned with every fileWriter closed and every upload task
\* started at process start has returned; an exit that leaves an upload task
\* running is the exit of the shutdown timeout
C11_GracefulExitWaitsForTasks ==
    /\ exit = "graceful" => (recPc = "returned" /\ Live = {} /\ Running = {})
    /\ (exit # "none" /\ Running # {}) => exit = "timeout"


\* the states of an upload task whose goroutine has returned
Returned == {"uploaded", "aborted", "exhausted", "badname"}

\* C12 as stated: in a step taken after the cancellation signal no task
\* enters a put attempt (neither a new task nor one leaving its backoff), a
\* task in a backoff returns, a task inside an attempt returns when the
\* attempt ends, and a file is removed only by a successful attempt
C12_NoAttemptAfterCancel ==
    [][(cancelled /\ restarts' = restarts) =>
          \A j \in DOMAIN tasks' :
              /\ tasks'[j].pc = "try" => (j \in DOMAIN tasks /\ tasks[j].pc = "try")
              /\ (j \in DOMAIN tasks /\ tasks'[j] # tasks[j]) =>
                     /\ tasks'[j].pc \in Returned
                     /\ tasks'[j].removed => tasks'[j].pc = "uploaded"]_vars

\* C12 amended: in a step taken after the cancellation signal no task starts
\* a backoff sleep, a task that ends an attempt returns whatever the outcome
\* (so a task makes at most one put attempt after the signal), a task that
\* leaves its backoff by the cancellation branch has returned, and a file is
\* removed only by the attempt that succeeded
C12_NoRetryAfterCancel ==
    [][(cancelled /\ restarts' = restarts) =>
          \A j \in DOMAIN tasks' :
              /\ tasks'[j].pc = "backoff" => (j \in DOMAIN tasks /\ tasks[j] = tasks'[j])
              /\ (j \in DOMAIN tasks /\ tasks'[j] # tasks[j]) =>
                     /\ tasks[j].pc = "try" =>
                            /\ tasks'[j].pc \in Returned
                            /\ tasks'[j].puts <= tasks[j].puts + 1
                            /\ tasks'[j].slept = tasks[j].slept
                     /\ tasks[j].pc = "backoff" =>
                            /\ tasks'[j].pc \in {"aborted", "try"}
                            /\ tasks'[j].puts = tasks[j].puts
                     /\ tasks'[j].removed =>
                            (tasks[j].pc = "try" /\ tasks'[j].pc = "uploaded")]_vars

\* after the signal a task has returned from a failed first attempt without
\* sleeping, its file still on disk
C12_Witness ==
    /\ cancelled
    /\ \E j \in DOMAIN tasks :
           /\ tasks[j].pc = "aborted"
           /\ tasks[j].puts = 1
           /\ tasks[j].slept = <<>>
           /\ ~tasks[j].removed
           /\ PathBase(tasks[j].path) \in DOMAIN dir


\* a step of the Recorder's rotation check
IsCheckRotation ==
    /\ restarts' = restarts
    /\ recPc = "running" /\ recPc' = "running"
    /\ tickPending /\ ~tickPending'

\* the two limits of the configuration, in ticks and in bytes
RotateInterval == cfg.rotateMinutes * TicksPerMinute
RotateSizeBytes == cfg.rotateMegabytes * BytesPerMB

\* C13: at a rotation check the writer of a key is rotated (closed and
\* replaced in the map by a new writer) exactly when its age has reached
\* rotateInterval or its bytesWritten has reached rotateSizeBytes; a writer
\* for which neither holds keeps its record, its place in the map and its
\* file content
C13_RotateIffLimitReached ==
    [][IsCheckRotation =>
          \A k \in Keys :
              LET i == currentFiles[k]
                  due == \/ now - fws[i].createdAt >= RotateInterval
                         \/ fws[i].bytesWritten >= RotateSizeBytes
              IN i # 0 =>
                     /\ due => /\ currentFiles'[k] \notin {0, i}
                               /\ fws'[i].status = "closed"
                               /\ fws'[currentFiles'[k]].status = "open"
                               /\ fws'[currentFiles'[k]].createdAt = now
                     /\ ~due => /\ currentFiles'[k] = i
                                /\ fws'[i] = fws[i]
                                /\ files'[fws[i].inode] = files[fws[i].inode]]_vars

\* a writer was rotated for its size alone, before its age reached the
\* interval
C13_Witness ==
    /\ recPc = "running"
    /\ \E i, j \in DOMAIN fws :
           /\ i # j
           /\ KeyOf(fws[i]) = KeyOf(fws[j])
           /\ fws[i].status = "closed"
           /\ fws[j].status = "open"
           /\ fws[i].bytesWritten >= RotateSizeBytes
           /\ fws[j].createdAt - fws[i].createdAt < RotateInterval


\* the bytes of the longest serialized Event with its newline
LineBytes == {JsonLen(Message(p, c, 0)) + 1 : p \in Platforms, c \in Channels}
MaxLineBytes == CHOOSE m \in LineBytes : \A x \in LineBytes : x <= m

\* C14 as stated: no open writer is past the time limit and past the size
\* limit by more than the bytes of bufferSize Events
C14_NeverPastBothLimits ==
    \A i \in Live :
        ~ /\ now - fws[i].createdAt >= RotateInterval
          /\ fws[i].bytesWritten > RotateSizeBytes + cfg.bufferSize * MaxLineBytes

\* C14 amended: when a rotation check has run, no open writer has reached
\* the time limit or the size limit
C14_NoLimitReachedAfterCheck ==
    [][IsCheckRotation =>
          \A i \in Live' :
              /\ now - fws'[i].createdAt < RotateInterval
              /\ fws'[i].bytesWritten < RotateSizeBytes]_vars

\* a rotation check has replaced a writer that was past both limits, the
\* size limit by more than one batch
C14_Witness ==
    /\ recPc = "running"
    /\ \E i, j \in DOMAIN fws :
           /\ KeyOf(fws[i]) = KeyOf(fws[j])
           /\ fws[i].status = "closed"
           /\ fws[j].status = "open"
           /\ fws[j].createdAt - fws[i].createdAt >= RotateInterval
           /\ fws[i].bytesWritten > RotateSizeBytes + cfg.bufferSize * MaxLineBytes


\* the day number a date token denotes; {} when it is no date of the calendar
DaysOfToken(tok) == {d \in CalendarDays : tok = DateTok(d)}

\* a name whose stem has at least four tokens, the last two a date and a time
WellFormed(name) ==
    /\ name.ext = "jsonl"
    /\ Len(name.stem) >= 4
    /\ name.stem[Len(name.stem)] \in ValidTimes
    /\ DaysOfToken(name.stem[Len(name.stem) - 1]) # {}

\* C15: the key of every upload task whose file name is well formed is
\* YYYY/MM/DD/<first token>/<tokens 2..n-2>/<filename>, with the date of the
\* date token; twitch_ludwig_20251230_1030.jsonl gives
\* 2025/12/30/twitch/ludwig/<filename>, and the channel of
\* twitch_some_long_name_20251230_1030.jsonl is some_long_name
C15_KeyOfWellFormedName ==
    \A j \in DOMAIN tasks :
        LET name == PathBase(tasks[j].path)
            st == name.stem
            n == Len(st)
        IN /\ WellFormed(name) =>
                 /\ tasks[j].pc # "badname"
                 /\ \E d \in DaysOfToken(st[n - 1]) :
                        tasks[j].s3Key = <<"2025", "12", ToString(30 + d), st[1],
                                           SubSeq(st, 2, n - 2), name>>
           /\ name = ExampleName =>
                 tasks[j].s3Key = <<"2025", "12", "30", "twitch", <<"ludwig">>,
                                    ExampleName>>
           /\ name = LongName => tasks[j].s3Key[5] = <<"some", "long", "name">>

\* the file with the long channel name was stored under its key
C15_Witness ==
    \E j \in DOMAIN tasks :
        /\ PathBase(tasks[j].path) = LongName
        /\ tasks[j].pc = "uploaded"
        /\ <<"2025", "12", "30", "twitch", <<"some", "long", "name">>, LongName>>
               \in DOMAIN remote

\* C16: an upload task whose file name has fewer than four tokens, or whose
\* last two tokens are no date and time, has returned without a put attempt
\* and without a sleep, nothing is stored for it and its file is on disk
C16_MalformedNameNeverTried ==
    \A j \in DOMAIN tasks :
        LET name == PathBase(tasks[j].path)
            st == name.stem
            n == Len(st)
        IN (\/ n < 4
            \/ st[n] \notin ValidTimes
            \/ DaysOfToken(st[n - 1]) = {}) =>
               /\ tasks[j].pc = "badname"
               /\ tasks[j].puts = 0
               /\ tasks[j].attempt = 0
               /\ tasks[j].slept = <<>>
               /\ ~tasks[j].removed
               /\ tasks[j].s3Key \notin DOMAIN remote
               /\ name \in DOMAIN dir
               /\ files[dir[name]] = <<OldLine(name)>>

\* the task of a three-token name has returned while the task of another
\* file delivered it
C16_Witness ==
    \E j, k \in DOMAIN tasks :
        /\ PathBase(tasks[j].path) = ShortName
        /\ tasks[j].pc = "badname"
        /\ ShortName \in DOMAIN dir
        /\ tasks[k].pc = "uploaded"

\* C17: the key derived from the filename of every fileWriter is
\* YYYY/MM/DD/<platform>/<channel>/<filename> with the date of the writer's
\* creation, for channels of one and of several '_'-separated tokens
C17_NamingRoundTrip ==
    \A i \in DOMAIN fws :
        GenerateS3Key(fws[i].filename) =
            [err |-> FALSE,
             key |-> <<"2025", "12", ToString(30 + DayOf(fws[i].createdAt)),
                       fws[i].platform, fws[i].channel, fws[i].filename>>]

\* a writer for a channel with an underscore was created on the second day
C17_Witness ==
    \E i \in DOMAIN fws :
        /\ fws[i].channel = <<"some", "name">>
        /\ DayOf(fws[i].createdAt) = 1
        /\ GenerateS3Key(fws[i].filename).key[3] = "31"


\* C18: a segment file found by the scan at start-up whose task has uploaded
\* has the content the earlier run left in it stored under its key, and is
\* off the disk when delete-after-upload is set
C18_RescannedSegmentDelivered ==
    \A j \in DOMAIN tasks :
        LET name == PathBase(tasks[j].path)
        IN tasks[j].pc = "uploaded" =>
               /\ tasks[j].s3Key \in DOMAIN remote
               /\ OldLine(name) \in Lines(remote[tasks[j].s3Key])
               /\ cfg.deleteAfter => tasks[j].removed


\* the entries of the output directory that are regular files ending in .jsonl
SegmentEntries == {f \in DOMAIN dir : ~f.isDir /\ f.ext = "jsonl"}

\* the next step of task j can be taken whatever the other tasks are doing
CanStep(j) ==
    /\ (tasks[j].pc = "try" /\ PathBase(tasks[j].path) \in DOMAIN dir) =>
           ENABLED TaskAttemptOk(j)
    /\ tasks[j].pc = "try" => ENABLED TaskAttemptFail(j)
    /\ tasks[j].pc = "backoff" => ENABLED TaskBackoffEnd(j)

\* C19: the scan at start-up leaves exactly one task, with no attempt made,
\* for each regular .jsonl entry of the directory and none for any other
\* entry; afterwards every task that has not returned can take its next step
\* whatever state the other tasks are in
C19_OneTaskPerSegmentFile ==
    [][/\ restarts' # restarts =>
              /\ \A f \in SegmentEntries :
                     Cardinality({j \in DOMAIN tasks' :
                                      tasks'[j].path = PathJoin(OutputDir, f)}) = 1
              /\ \A j \in DOMAIN tasks' :
                     /\ PathBase(tasks'[j].path) \in SegmentEntries
                     /\ tasks'[j].puts = 0
                     /\ tasks'[j].slept = <<>>
       /\ exit = "none" => \A j \in DOMAIN tasks : CanStep(j)]_vars

\* two files were found; the task of one is in its backoff sleep after a
\* failure while the task of the other has delivered its file
C19_Witness ==
    /\ restarts = 1
    /\ fws = <<>>
    /\ \E j, k \in DOMAIN tasks :
           /\ tasks[j].pc = "backoff"
           /\ tasks[k].pc = "uploaded"
           /\ tasks[k].puts = 1


\* a step in which Uploader.Start takes a path from the Delivery Queue
IsReceive == restarts' = restarts /\ Len(fileChan') < Len(fileChan)

\* C20: while the consumer loop runs, a path waiting in the Delivery Queue can
\* be dequeued whatever the earlier upload tasks are doing, and dequeuing it
\* starts one fresh task for that path and leaves every other task as it was
C20_ReceiveNeverWaitsOnTasks ==
    [][/\ (/\ exit = "none"
           /\ upPc = "running"
           /\ fileChan # <<>>
           /\ Len(tasks) < MaxTasks) => ENABLED UploaderReceive
       /\ IsReceive =>
              /\ fileChan' = Tail(fileChan)
              /\ Len(tasks') = Len(tasks) + 1
              /\ SubSeq(tasks', 1, Len(tasks)) = tasks
              /\ tasks'[Len(tasks')].path = Head(fileChan)
              /\ tasks'[Len(tasks')].puts = 0
              /\ tasks'[Len(tasks')].slept = <<>>]_vars

\* a path was dequeued and its file delivered while an earlier task, after a
\* failed attempt, is still in its backoff sleep
C20_Witness ==
    /\ restarts = 0
    /\ \E i, j \in DOMAIN tasks :
           /\ i < j
           /\ tasks[i].pc = "backoff"
           /\ tasks[i].slept = <<>>
           /\ tasks[j].pc = "uploaded"


\* what the object store holds under key k
RemoteLinesAt(k) == IF k \in DOMAIN remote THEN Lines(remote[k]) ELSE {}

\* C21: while no cancellation has occurred, an upload task that still has an
\* attempt to make either finds its file on disk, or the store already holds
\* every line of the closed segments of that name; otherwise every attempt
\* fails at opening the file and the segment is never uploaded
C21_QueuedSegmentNotStranded ==
    ~cancelled =>
        \A j \in Running :
            LET name == PathBase(tasks[j].path)
            IN name \notin DOMAIN dir =>
                   \A i \in DOMAIN fws :
                       (fws[i].filename = name /\ fws[i].status = "closed") =>
                           Lines(fws[i].wrote) \subseteq RemoteLinesAt(tasks[j].s3Key)


\* the keys whose writer a step replaces
Rotated == {k \in Keys : currentFiles[k] # 0 /\ currentFiles'[k] # currentFiles[k]}

\* the paths a step adds to the Delivery Queue
Enqueued == {fileChan'[n] : n \in (Len(fileChan) + 1)..Len(fileChan')}

\* C24: a rotation leaves the old writer flushed and closed and its path in
\* the Delivery Queue (or skipped because the queue was full), and the map
\* holding for the same key a new writer with an empty buffer, no bytes
\* written and the time of the rotation as createdAt; every path in the
\* Delivery Queue names a writer that is closed with nothing left to flush
C24_RotationStepsInOrder ==
    [][/\ IsCheckRotation =>
            \A k \in Rotated :
                LET i == currentFiles[k]
                    n == currentFiles'[k]
                    path == PathJoin(OutputDir, fws[i].filename)
                IN /\ fws'[i].status = "closed"
                   /\ fws'[i].messageBuffer = <<>>
                   /\ fws'[i].wrote = fws[i].wrote \o fws[i].messageBuffer
                   /\ \/ path \in Enqueued
                      \/ [path |-> path, run |-> restarts] \in dropped' \ dropped
                   /\ n \notin DOMAIN fws
                   /\ n \in DOMAIN fws'
                   /\ fws'[n].status = "open"
                   /\ fws'[n].messageBuffer = <<>>
                   /\ fws'[n].bytesWritten = 0
                   /\ fws'[n].createdAt = now
                   /\ KeyOf(fws'[n]) = k
       /\ \A n \in DOMAIN fileChan' :
              \E i \in DOMAIN fws' :
                  /\ fws'[i].filename = PathBase(fileChan'[n])
                  /\ fws'[i].status = "closed"
                  /\ fws'[i].messageBuffer = <<>>
                  /\ fws'[i].wrote = fws'[i].accepted]_vars

\* a writer was rotated while an Event was still in its buffer: the Event is
\* on record as written, the path is queued and the replacement is empty
C24_Witness ==
    /\ restarts = 0
    /\ recPc = "running"
    /\ cfg.bufferSize = 2
    /\ \E i \in DOMAIN fws :
           /\ fws[i].status = "closed"
           /\ Len(fws[i].wrote) = 1
           /\ PathJoin(OutputDir, fws[i].filename) \in Lines(fileChan)
           /\ currentFiles[KeyOf(fws[i])] > i
           /\ fws[currentFiles[KeyOf(fws[i])]].bytesWritten = 0


\* the tasks that got past the derivation of their key
Keyed == {j \in DOMAIN tasks : tasks[j].pc # "badname"}

\* a step in which task j completes a put
Delivers(j) ==
    /\ restarts' = restarts
    /\ j \in DOMAIN tasks
    /\ tasks[j].pc = "try"
    /\ tasks'[j].pc = "uploaded"

\* C26: tasks for the same filename use the same key and tasks for different
\* filenames use different keys; every key in the store is the key derived
\* from the filename it ends in; a delivery adds its task's key to the keys
\* of the store and nothing else, so a repeated delivery leaves the set of
\* keys as it was
C26_RedeliveryIdempotent ==
    [][/\ \A i, j \in Keyed :
              (PathBase(tasks[i].path) = PathBase(tasks[j].path))
                  <=> (tasks[i].s3Key = tasks[j].s3Key)
       /\ \A k \in DOMAIN remote : GenerateS3Key(k[6]) = [err |-> FALSE, key |-> k]
       /\ \A j \in DOMAIN tasks :
              Delivers(j) =>
                  /\ DOMAIN remote' = DOMAIN remote \cup {tasks[j].s3Key}
                  /\ tasks[j].s3Key \in DOMAIN remote => DOMAIN remote' = DOMAIN remote]_vars

\* the same file was delivered by two tasks and the store holds one key
C26_Witness ==
    \E i, j \in Keyed :
        /\ i # j
        /\ tasks[i].path = tasks[j].path
        /\ tasks[i].pc = "uploaded"
        /\ tasks[j].pc = "uploaded"
        /\ Cardinality(DOMAIN remote) = 1


\* the step in which Recorder.Start returns through flushAll
IsShutdown == restarts' = restarts /\ recPc = "running" /\ recPc' = "returned"

\* the paths of the writers that are open
LivePaths == {PathJoin(OutputDir, fws[i].filename) : i \in Live}

Min(a, b) == IF a <= b THEN a ELSE b

\* C29: the step that shuts the Recorder down offers the path of every open
\* writer to the Delivery Queue once without waiting: the queue grows by
\* exactly these paths as far as it has room and the rest are skipped; no
\* writer and no file is created, and the map is left empty
C29_ShutdownEnqueuesLikeRotation ==
    [][IsShutdown =>
          /\ SubSeq(fileChan', 1, Len(fileChan)) = fileChan
          /\ Len(fileChan') = Min(FileChanCap, Len(fileChan) + Cardinality(Live))
          /\ Enqueued \subseteq LivePaths
          /\ \A path \in LivePaths :
                 IF path \in Enqueued
                 THEN Count(SubSeq(fileChan', Len(fileChan) + 1, Len(fileChan')), path) = 1
                 ELSE [path |-> path, run |-> restarts] \in dropped'
          /\ DOMAIN fws' = DOMAIN fws
          /\ DOMAIN dir' = DOMAIN dir
          /\ Len(files') = Len(files)
          /\ currentFiles' = NoWriters]_vars

\* two writers were open at cancellation: the path of one is in the queue,
\* the other was skipped, and the directory holds their two files only
C29_Witness ==
    /\ recPc = "returned"
    /\ restarts = 0
    /\ Len(fws) = 2
    /\ \E i, j \in DOMAIN fws :
           /\ fileChan = <<PathJoin(OutputDir, fws[i].filename)>>
           /\ [path |-> PathJoin(OutputDir, fws[j].filename), run |-> 0] \in dropped
    /\ DOMAIN dir = {StrayName, fws[1].filename, fws[2].filename}


\* C30: no upload task completes a put of, or removes, a file that an open
\* writer holds
C30_UploadNeverTouchesOpenFile ==
    [][\A j \in DOMAIN tasks :
           Delivers(j) =>
               \A i \in Live : fws[i].filename # PathBase(tasks[j].path)]_vars


\* C27: the number of the next Event moves on only when the Event was put
\* into the channel, or after cancellation; a source with an Event in hand
\* can send as soon as the channel has room and cannot proceed while it is
\* full and no cancellation has occurred; after cancellation it can leave
C27_SourceWaitsOrLeaves ==
    [][/\ nextId' # nextId =>
              \/ /\ Len(messageChan) < cfg.bufferSize
                 /\ \E p \in Platforms, c \in Channels :
                        messageChan' = Append(messageChan, Message(p, c, nextId))
              \/ cancelled /\ messageChan' = messageChan
       /\ (exit = "none" /\ nextId <= MaxEvents) =>
              /\ Len(messageChan) < cfg.bufferSize => ENABLED SourceSend
              /\ (Len(messageChan) = cfg.bufferSize /\ ~cancelled) =>
                     ~ENABLED SourceSend /\ ~ENABLED SourceGiveUp
              /\ cancelled => ENABLED SourceGiveUp]_vars

\* with room for one Event, the second Event is in the channel after the
\* Recorder took the first: its send had to wait for the Recorder
C27_Witness ==
    /\ cfg.bufferSize = 1
    /\ ~cancelled
    /\ Len(messageChan) = 1
    /\ messageChan[1].id = 2
    /\ \E i \in DOMAIN fws : fws[i].accepted # <<>> /\ fws[i].accepted[1].id = 1


\* C22: whatever fails, the Recorder loop, once running, and the Uploader
\* loop are back at their select after every step and leave it only after
\* cancellation; a step that returns an upload task takes nothing from the
\* channel or the queue, and while the Uploader loop runs a path in the
\* Delivery Queue can be received
C22_FailuresDoNotStopTheLoops ==
    [][/\ (recPc = "running" /\ recPc' # "running") => cancelled
       /\ (upPc = "running" /\ upPc' # "running") => cancelled
       /\ (\E j \in DOMAIN tasks : tasks'[j].pc \in Returned /\ tasks[j].pc \notin Returned)
              => /\ recPc' = recPc /\ upPc' = upPc
                 /\ messageChan' = messageChan /\ fileChan' = fileChan
       /\ (exit = "none" /\ upPc = "running" /\ fileChan # <<>>
           /\ Len(tasks) < MaxTasks) => ENABLED UploaderReceive]_vars

\* the flush of the first Event failed; the second Event, for another key,
\* was written to its file afterwards, and the Recorder is still running
C22_Witness ==
    /\ recPc = "running"
    /\ cfg.bufferSize = 1
    /\ Len(fws) = 2
    /\ fws[1].werr
    /\ fws[1].accepted[1].id = 1
    /\ fws[2].wrote # <<>>
    /\ fws[2].wrote[1].id = 2
    /\ \E j \in DOMAIN tasks : tasks[j].pc = "badname"


\* C23: of the Events a writer accepted, every one at which no write failed
\* is on record as written exactly once by the time the writer is closed
C23_OnlyTheFailedEventIsLost ==
    \A i \in DOMAIN fws :
        fws[i].status = "closed" =>
            \A n \in DOMAIN fws[i].accepted :
                fws[i].accepted[n] \notin fws[i].failedEv =>
                    Count(fws[i].wrote, fws[i].accepted[n]) = 1


\* C25: no fileWriter holds more than bufferSize pending Events
C25_PendingBufferBounded ==
    \A i \in DOMAIN fws : Len(fws[i].messageBuffer) <= cfg.bufferSize


\* C28: once Recorder.Start has returned the error of os.MkdirAll, the
\* process does not go on running its sources: unless the process has ended
\* or is being shut down, no Event enters the channel that nothing drains
C28_MkdirFailureEndsProcess ==
    [][(recPc = "failed" /\ ~cancelled /\ exit = "none") =>
           messageChan' = messageChan]_vars

-----------------------------------------------------------------------------
(* The Recorder after cancellation *)

\* q is an initial segment of r
IsPrefix(q, r) == Len(q) <= Len(r) /\ SubSeq(r, 1, Len(q)) = q

\* the Events some fileWriter has appended to its buffer
AppendedEvents == UNION {Lines(fws[i].accepted) : i \in DOMAIN fws}

\* C31: from the step in which Recorder.Start takes the cancellation branch
\* on, no Event leaves the Event channel (sources may still add to it), the
\* Events queued in it are in no fileWriter and in no segment file, and no
\* fileWriter and no file changes any more
C31_NoEventTakenAfterReturn ==
    [][/\ (recPc' = "returned" /\ restarts' = restarts) =>
            /\ IsPrefix(messageChan, messageChan')
            /\ Lines(messageChan') \cap AppendedEvents' = {}
            /\ Lines(messageChan') \cap LocalLines' = {}
       /\ (recPc = "returned" /\ restarts' = restarts) =>
            /\ fws' = fws
            /\ currentFiles' = currentFiles
            /\ files' = files]_vars

\* the Recorder has returned in the first run, one Event is in a closed
\* segment on disk and a later Event is still in the channel, in no writer
C31_Witness ==
    /\ recPc = "returned"
    /\ restarts = 0
    /\ Len(messageChan) = 1
    /\ Head(messageChan).id = 2
    /\ \E i \in DOMAIN fws :
           /\ fws[i].status = "closed"
           /\ Len(fws[i].wrote) = 1
           /\ fws[i].wrote[1].id = 1
    /\ Head(messageChan) \notin AppendedEvents

-----------------------------------------------------------------------------
(* The Uploader after cancellation *)

\* C32: from the step in which Uploader.Start takes the cancellation branch
\* on, no path leaves the Delivery Queue and no upload task is started, and
\* the file of every path still queued stays in the output directory with
\* its content unchanged for the rest of the process run
C32_QueuedPathsLeftForRescan ==
    [][/\ (upPc' = "returned" /\ restarts' = restarts) =>
            /\ IsPrefix(fileChan, fileChan')
            /\ Len(tasks') = Len(tasks)
       /\ (upPc = "returned" /\ restarts' = restarts) =>
            \A n \in DOMAIN fileChan :
                LET f == PathBase(fileChan[n])
                IN f \in DOMAIN dir =>
                       /\ f \in DOMAIN dir'
                       /\ files'[dir'[f]] = files[dir[f]]]_vars

-----------------------------------------------------------------------------
(* Idle keys *)

\* C33: while the Recorder runs, a key that has a writer keeps an open
\* writer, and a key gets its first writer only in the step that takes an
\* Event of that key from the channel; a rotation check also rotates a
\* writer that never received an Event once its age has reached the rotate
\* interval: its empty file is closed and its path offered to the Delivery
\* Queue, and the key gets a new empty writer created at the check
C33_IdleKeyKeepsRotating ==
    [][/\ (restarts' = restarts /\ recPc = "running" /\ recPc' = "running") =>
            \A k \in Keys :
                /\ currentFiles[k] # 0 =>
                       /\ currentFiles'[k] # 0
                       /\ fws'[currentFiles'[k]].status = "open"
                       /\ KeyOf(fws'[currentFiles'[k]]) = k
                /\ (currentFiles[k] = 0 /\ currentFiles'[k] # 0) =>
                       /\ messageChan # <<>>
                       /\ messageChan' = Tail(messageChan)
                       /\ Key(Head(messageChan).platform, Head(messageChan).channel) = k
       /\ IsCheckRotation =>
            \A k \in Keys :
                LET i == currentFiles[k]
                    n == currentFiles'[k]
                    path == PathJoin(OutputDir, fws[i].filename)
                IN (/\ i # 0
                    /\ fws[i].accepted = <<>>
                    /\ now - fws[i].createdAt >= RotateInterval) =>
                       /\ fws'[i].status = "closed"
                       /\ fws'[i].wrote = <<>>
                       /\ files'[fws[i].inode] = <<>>
                       /\ \/ path \in Enqueued
                          \/ /\ Len(fileChan') = FileChanCap
                             /\ [path |-> path, run |-> restarts] \in dropped'
                       /\ n \notin DOMAIN fws
                       /\ fws'[n].accepted = <<>>
                       /\ fws'[n].createdAt = now]_vars

\* a key that received one Event before the first tick and none since: the
\* second tick closed the empty writer the first tick had created, its path
\* went to the Delivery Queue, and the key has an empty open writer again
C33_Witness ==
    /\ recPc = "running"
    /\ now = IdleHorizon
    /\ Len(fws) = 3
    /\ KeyOf(fws[1]) = KeyOf(fws[2]) /\ KeyOf(fws[2]) = KeyOf(fws[3])
    /\ Len(fws[1].accepted) = 1
    /\ fws[2].status = "closed"
    /\ fws[2].accepted = <<>>
    /\ files[fws[2].inode] = <<>>
    /\ fws[3].status = "open"
    /\ fws[3].accepted = <<>>
    /\ fws[3].createdAt = IdleHorizon
    /\ PathJoin(OutputDir, fws[2].filename) \in Lines(fileChan)

-----------------------------------------------------------------------------
(* A failed createFileWriter *)

\* a step in which Recorder.Start takes an Event from the channel
TakesEvent ==
    /\ restarts' = restarts
    /\ recPc = "running"
    /\ messageChan # <<>>
    /\ messageChan' = Tail(messageChan)

\* the key of the Event at the head of the channel
HeadKey == Key(Head(messageChan).platform, Head(messageChan).channel)

\* C34: a rotation check that leaves a key without a writer has closed the
\* old writer and offered its path to the Delivery Queue; every writer in
\* the map is open; a step that takes an Event either appends it to the
\* writer its key has in the map afterwards, a new writer created in that
\* step when the key had none, or changes no writer at all, and the latter
\* only when the key had no writer (createFileWriter failed in that call)
C34_FailedReplacementIsRecreated ==
    [][/\ restarts' = restarts =>
            \A k \in Keys :
                currentFiles'[k] # 0 => fws'[currentFiles'[k]].status = "open"
       /\ IsCheckRotation =>
            \A k \in Keys :
                LET i == currentFiles[k]
                    path == PathJoin(OutputDir, fws[i].filename)
                IN (i # 0 /\ currentFiles'[k] = 0) =>
                       /\ fws'[i].status = "closed"
                       /\ \/ path \in Enqueued
                          \/ /\ Len(fileChan') = FileChanCap
                             /\ [path |-> path, run |-> restarts] \in dropped'
       /\ TakesEvent =>
            LET msg == Head(messageChan)
                i == currentFiles[HeadKey]
                n == currentFiles'[HeadKey]
            IN \/ /\ n # 0
                  /\ i # 0 => /\ n = i
                              /\ fws'[n].accepted = Append(fws[i].accepted, msg)
                  /\ i = 0 => /\ n \notin DOMAIN fws
                              /\ fws'[n].accepted = <<msg>>
                              /\ fws'[n].createdAt = now
               \/ /\ i = 0
                  /\ fws' = fws
                  /\ currentFiles' = currentFiles
                  /\ files' = files]_vars

\* the rotation of a key lost its replacement: the Recorder runs, the key has
\* a closed writer whose path is in the Delivery Queue and no writer in the
\* map, and the next Event of that key waits in the channel
C34_Witness ==
    /\ recPc = "running"
    /\ restarts = 0
    /\ Len(fws) = 1
    /\ fws[1].status = "closed"
    /\ currentFiles[KeyOf(fws[1])] = 0
    /\ fileChan = <<PathJoin(OutputDir, fws[1].filename)>>
    /\ messageChan # <<>>
    /\ HeadKey = KeyOf(fws[1])

-----------------------------------------------------------------------------
(* The frame of recordMessage *)

\* C35: a step that takes an Event of key k from the channel, whether
\* recordMessage succeeds, fails at createFileWriter or fails in the flush,
\* leaves the record of every fileWriter of another key (pending buffer,
\* bytesWritten, createdAt, filename) and the content and directory entry of
\* its file as they were, keeps the map entries of the other keys, and
\* leaves the Delivery Queue unchanged
C35_RecordTouchesOnlyItsKey ==
    [][TakesEvent =>
          /\ fileChan' = fileChan
          /\ dropped' = dropped
          /\ \A k \in Keys \ {HeadKey} : currentFiles'[k] = currentFiles[k]
          /\ \A i \in DOMAIN fws :
                 KeyOf(fws[i]) # HeadKey =>
                     /\ fws'[i] = fws[i]
                     /\ files'[fws[i].inode] = files[fws[i].inode]
                     /\ fws[i].filename \in DOMAIN dir =>
                            /\ fws[i].filename \in DOMAIN dir'
                            /\ dir'[fws[i].filename] = dir[fws[i].filename]]_vars

\* the open writer of one key has its Event on disk, and recordMessage has
\* since failed in the flush of the first Event of another key
C35_Witness ==
    /\ recPc = "running"
    /\ restarts = 0
    /\ cfg.bufferSize = 1
    /\ Len(fws) = 2
    /\ KeyOf(fws[1]) # KeyOf(fws[2])
    /\ fws[1].status = "open"
    /\ fws[1].messageBuffer = <<>>
    /\ Len(fws[1].wrote) = 1
    /\ fws[1].bytesWritten = SumBytes(fws[1].wrote)
    /\ files[fws[1].inode] = fws[1].wrote
    /\ fws[2].werr
    /\ fws[2].wrote = <<>>
    /\ messageChan = <<>>

-----------------------------------------------------------------------------
(* Configuration defaults *)

\* C36: loading a configuration file that does not set delete_after_upload
\* gives a configuration whose DeleteAfterUpload is true
C36_DeleteAfterUploadDefaultsTrue ==
    [][("yaml" \in DOMAIN cfg /\ "delete_after_upload" \notin DOMAIN cfg.yaml) =>
          cfg'.deleteAfter = TRUE]_vars

-----------------------------------------------------------------------------
(* bytesWritten *)

\* the bytes of the lines of the Events a fileWriter appended to its buffer
\* and that left the buffer again in a flush
HandedBytes(fw) == SumBytes(fw.accepted) - SumBytes(fw.messageBuffer)

\* C37: the bytesWritten of every open fileWriter is the sum, over the Events
\* its flushes have taken from the pending buffer and written, of the
\* serialized Event and one newline; it counts nothing for an Event that is
\* in the pending buffer
C37_BytesWrittenCountsFlushedLines ==
    \A i \in Live : fws[i].bytesWritten = HandedBytes(fws[i])
====
